---------------------------- MODULE Spec2Model ----------------------------
(***************************************************************************)
(* VideoGadjo server (src/server.js): the upload handler, the metadata     *)
(* probe, the per-clip proxy/thumbnail pipeline in both storage modes      *)
(* (generateProxyLocally on the in-memory store, processVideoForCloud on   *)
(* the videos table), the delete handler, the mark handlers, the filename  *)
(* functions, the export job and the log buffer, and the client            *)
(* (src/public/js/app.js): its export summary and export polling, its      *)
(* project list with refresh and sort modes, its mark buttons, and its     *)
(* player with the browser's ProxyCache (src/unnamed/part_000).            *)
(*                                                                         *)
(* One action is one turn of the Node event loop: an event handler (an    *)
(* HTTP request, a child process 'error' or 'close' event, a settled       *)
(* pool.query) together with the continuation of the async function it    *)
(* resumes, up to that function's next await.                              *)
(*                                                                         *)
(* pool.query is taken to be atomic: it either applies its statement and   *)
(* resolves, or rejects and applies nothing.                               *)
(***************************************************************************)
EXTENDS Integers, Sequences, FiniteSets, TLC

\* Number of upload requests the model follows; request r is given videoId r
\* (uuidv4 never repeats an id).
MaxUploads == 2

\* Cap of the spawn counters (they stay far below it unless a step is repeated).
SpawnCap == 3

\* Number of export jobs the model follows.
MaxExports == 1

\* Number of clips in the snapshots the export summary is computed on.
MaxPlanClips == 2

\* Number of marks the mark handlers create; the n-th mark created gets id n
\* (uuidv4 / gen_random_uuid never repeat an id).
MaxMarks == 2

\* Number of requests the client has in flight at a time.
MaxFetches == 2

\* Number of in points the client stages.
MaxStages == 2

\* Number of marks the client's requests create.
MaxClientMarks == 2

\* Number of clips in a project listing the sort is applied to.
MaxListed == 3

\* Number of calls of log the model follows: the buffer fills and evicts.
MaxLogCalls == 102

\* The polls of an export job are counted up to this number.
MaxPolls == 2

\* Number of playVideo calls waiting for the cache at a time.
MaxPlays == 2

Ids == 1..MaxUploads

MarkIds == 1..MaxMarks

NULL == <<>>

Some(x) == <<x>>

VARIABLES
    IS_LOCAL_MODE,   \* server.js:23, fixed at start-up
    videos,          \* localStore.videos / the videos table: id -> record
    nextId,          \* the next upload request (and videoId) to arrive
    reqPc,           \* upload handler position: idle | probe | insert | done
    res,             \* the upload handler's HTTP response
    ffprobe,         \* the ffprobe child of each upload: none | running | closed
    probePromise,    \* the promise getVideoMetadata returns
    pc,              \* pipeline position: none | proxy | thumb | updReady | updFailed | done
    ffmpegProxy,     \* the ffmpeg child of generateProxy
    proxyPromise,    \* the promise generateProxy returns
    ffmpegThumb,     \* the ffmpeg child of generateThumbnail
    thumbPromise,    \* the promise generateThumbnail returns
    spawned,         \* per upload: how many ffprobe / proxy / thumbnail children were spawned
    consoleErrors,   \* per clip: console.error calls made by its pipeline
    marks,           \* localStore.marks / the marks table, in insertion order
    nextMarkId,      \* the id the next created mark gets
    httpRes,         \* status code of the latest delete or mark response (0: none yet)
    clientVideos,    \* app.js: this.videos, the client's clip snapshot
    exportSummary,   \* app.js: what showExportModal last put into the export modal
    exportVideos,    \* server.js:739: the `videos` list of the latest processExportLocally
    exports,         \* localStore.exports: id -> export job
    nextExportId,    \* the id the next export job gets
    originalname,    \* server.js:434: req.file.originalname of the latest upload
    source,          \* server.js:435: what detectVideoSource made of it
    filenameDate,    \* server.js:436: what parseFilenameDate made of it
    project,         \* app.js: this.project (the id of the open project)
    sortMode,        \* app.js: this.sortMode
    activeVideoId,   \* app.js: this.activeVideoId
    currentInPoint,  \* app.js: this.currentInPoint
    refreshInterval, \* app.js: this.refreshInterval (the timer's handle)
    timers,          \* the interval timers the browser runs
    opens,           \* history: openProject calls since the last leaveProject
    fetches,         \* the client's requests in flight
    stagedOn,        \* history: the clip that was active when currentInPoint was staged
    stageNo,         \* history: how many in points were staged so far
    created,         \* history: the marks the client's requests created
    exportPoll,      \* app.js: the export job pollExportStatus is polling
    memoryLogs,      \* server.js:190: the log buffer
    cacheStore,      \* ProxyCache: the records of the 'proxies' object store
    plays,           \* the playVideo calls waiting for proxyCache.getOrCache
    playerSrc        \* app.js: videoPlayer.src

uploadVars == <<nextId, reqPc, res, ffprobe, probePromise>>
pipeVars == <<pc, ffmpegProxy, proxyPromise, ffmpegThumb, thumbPromise, consoleErrors>>
markVars == <<marks, nextMarkId>>
planVars == <<clientVideos, exportSummary, exportVideos, exports, nextExportId>>
nameVars == <<originalname, source, filenameDate>>
clientVars == <<project, sortMode, activeVideoId, currentInPoint, refreshInterval,
                timers, opens, fetches, stagedOn, stageNo, created>>
sideVars == <<exportPoll, memoryLogs, cacheStore, plays, playerSrc>>
vars == <<IS_LOCAL_MODE, videos, nextId, reqPc, res, ffprobe, probePromise, pc,
          ffmpegProxy, proxyPromise, ffmpegThumb, thumbPromise, spawned,
          consoleErrors, marks, nextMarkId, httpRes, clientVideos, exportSummary,
          exportVideos, exports, nextExportId, originalname, source, filenameDate,
          project, sortMode, activeVideoId, currentInPoint, refreshInterval,
          timers, opens, fetches, stagedOn, stageNo, created, exportPoll, memoryLogs,
          cacheStore, plays, playerSrc>>

-----------------------------------------------------------------------------
(* JavaScript promises: the first resolve/reject settles, later ones are    *)
(* ignored.                                                                 *)

Pending == [state |-> "pending", value |-> NULL]

NoPromise == [state |-> "none", value |-> NULL]

Resolve(p, v) ==
    IF p.state = "pending" THEN [state |-> "fulfilled", value |-> v] ELSE p

\* Reject with the last call winning.
RejectLast(p, msg) == [state |-> "rejected", value |-> msg]

Reject(p, msg) ==
    IF p.state = "pending" THEN [state |-> "rejected", value |-> msg] ELSE p

Inc(n) == IF n < SpawnCap THEN n + 1 ELSE n

-----------------------------------------------------------------------------
(* getVideoMetadata: ffprobe's stdout, and what the close handler extracts. *)

\* A Date object: a time value, or NaN (new Date of an unparsable string).
ValidDate(ms) == [nan |-> FALSE, ms |-> ms]

InvalidDate == [nan |-> TRUE, ms |-> 0]

\* new Date(format.tags.creation_time)
NewDate(tag) == IF tag = "garbage" THEN InvalidDate ELSE ValidDate(1000)

\* What ffprobe can print with exit code 0: text JSON.parse rejects, or a JSON
\* document with or without format.duration, a video stream and a creation_time tag.
ProbeOutputs ==
    { [json |-> FALSE, duration |-> NULL, video |-> NULL, creation_time |-> NULL],
      [json |-> TRUE, duration |-> NULL, video |-> NULL, creation_time |-> NULL],
      [json |-> TRUE, duration |-> Some(20), video |-> Some([width |-> 1920, height |-> 1080]),
       creation_time |-> Some("2023-06-01T10:00:00Z")],
      [json |-> TRUE, duration |-> Some(20), video |-> Some([width |-> 1920, height |-> 1080]),
       creation_time |-> Some("garbage")] }

\* server.js:170-182: the parsed metadata, or NULL when JSON.parse throws.
ParseMetadata(stdout) ==
    IF ~stdout.json THEN NULL
    ELSE Some([duration |-> IF stdout.duration = NULL THEN 0 ELSE stdout.duration[1],
               width |-> IF stdout.video = NULL THEN 0 ELSE stdout.video[1].width,
               height |-> IF stdout.video = NULL THEN 0 ELSE stdout.video[1].height,
               creationTime |-> IF stdout.creation_time = NULL THEN NULL
                                ELSE Some(NewDate(stdout.creation_time[1]))])

\* metadata?.creationTime?.toISOString() throws a RangeError on an invalid Date.
MetadataDateThrows(metadata) ==
    /\ metadata # NULL
    /\ metadata[1].creationTime # NULL
    /\ metadata[1].creationTime[1].nan

\* NewVideo with processing_status left out, so that the record carries the
\* videos table's default (server.js:802).
NewVideoPending(id, metadata) ==
    [ id |-> id,
      duration |-> IF metadata = NULL THEN 0 ELSE metadata[1].duration,
      width |-> IF metadata = NULL THEN 0 ELSE metadata[1].width,
      height |-> IF metadata = NULL THEN 0 ELSE metadata[1].height,
      metadata_date |-> IF metadata = NULL \/ metadata[1].creationTime = NULL THEN NULL
                        ELSE Some(metadata[1].creationTime[1].ms),
      processing_status |-> "pending",
      proxy_url |-> NULL,
      thumbnail_url |-> NULL,
      order_index |-> 0,
      included |-> TRUE,
      marks |-> <<>> ]

\* server.js:441-459: the record the upload handler builds.
NewVideo(id, metadata) ==
    [ id |-> id,
      duration |-> IF metadata = NULL THEN 0 ELSE metadata[1].duration,
      width |-> IF metadata = NULL THEN 0 ELSE metadata[1].width,
      height |-> IF metadata = NULL THEN 0 ELSE metadata[1].height,
      metadata_date |-> IF metadata = NULL \/ metadata[1].creationTime = NULL THEN NULL
                        ELSE Some(metadata[1].creationTime[1].ms),
      processing_status |-> "processing",
      proxy_url |-> NULL,
      thumbnail_url |-> NULL,
      order_index |-> 0,
      included |-> TRUE,
      marks |-> <<>> ]

NoRes == [code |-> 0, error |-> "", video |-> NULL]

\* No delete or mark request has been answered yet.
NoHttpRes == 0

-----------------------------------------------------------------------------
(* Store writes of the pipelines.                                           *)

ProxyUrl(id) == <<"/proxies/", id, ".mp4">>

ThumbnailUrl(id) == <<"/thumbnails/", id, ".jpg">>

\* ProxyPath with a file name that does not carry the clip id.
ProxyPathShared(id) == <<"proxies/", "proxy", ".mp4">>

\* server.js:498, 500 and 535, 537: path.join(proxyDir, `${videoId}.mp4`)
ProxyPath(id) == <<"proxies/", id, ".mp4">>

\* server.js:499, 501 and 536, 538: path.join(thumbnailDir, `${videoId}.jpg`)
ThumbPath(id) == <<"thumbnails/", id, ".jpg">>

\* LocalWriteReady without the thumbnail_url assignment.
LocalWriteReadyProxyOnly(store, id) ==
    IF id \in DOMAIN store
    THEN [store EXCEPT ![id].processing_status = "ready",
                       ![id].proxy_url = ProxyUrl(id)]
    ELSE store

\* LocalWriteReady without the `if (video)` test: the record is written back
\* under the id whether or not the store still holds it.
LocalWriteReadyUpsert(store, id) ==
    (id :> [(IF id \in DOMAIN store THEN store[id] ELSE NewVideo(id, NULL))
               EXCEPT !.processing_status = "ready",
                      !.proxy_url = ProxyUrl(id),
                      !.thumbnail_url = ThumbnailUrl(id)]) @@ store

\* server.js:512-518
LocalWriteReady(store, id) ==
    IF id \in DOMAIN store
    THEN [store EXCEPT ![id].processing_status = "ready",
                       ![id].proxy_url = ProxyUrl(id),
                       ![id].thumbnail_url = ThumbnailUrl(id)]
    ELSE store

\* server.js:523-527
LocalWriteFailed(store, id) ==
    IF id \in DOMAIN store
    THEN [store EXCEPT ![id].processing_status = "failed"]
    ELSE store

\* server.js:552-557: UPDATE videos SET processing_status, proxy_url, thumbnail_url WHERE id
CloudUpdateReady(store, id) ==
    [v \in DOMAIN store |->
        IF v = id
        THEN [store[v] EXCEPT !.processing_status = "ready",
                              !.proxy_url = ProxyUrl(id),
                              !.thumbnail_url = ThumbnailUrl(id)]
        ELSE store[v]]

\* CloudUpdateFailed without its WHERE clause.
CloudUpdateFailedEveryRow(store, id) ==
    [v \in DOMAIN store |-> [store[v] EXCEPT !.processing_status = "failed"]]

\* server.js:566-569: UPDATE videos SET processing_status = 'failed' WHERE id
CloudUpdateFailed(store, id) ==
    [v \in DOMAIN store |->
        IF v = id THEN [store[v] EXCEPT !.processing_status = "failed"] ELSE store[v]]

\* localStore.videos.set(videoId, video) / INSERT INTO videos
Insert(store, id, video) == (id :> video) @@ store

\* localStore.videos.delete(id) / DELETE FROM videos WHERE id
Remove(store, id) == [v \in DOMAIN store \ {id} |-> store[v]]

-----------------------------------------------------------------------------
Init ==
    /\ IS_LOCAL_MODE \in BOOLEAN
    /\ videos = <<>>
    /\ nextId = 1
    /\ reqPc = [r \in Ids |-> "idle"]
    /\ res = [r \in Ids |-> NoRes]
    /\ ffprobe = [r \in Ids |-> "none"]
    /\ probePromise = [r \in Ids |-> NoPromise]
    /\ pc = [c \in Ids |-> "none"]
    /\ ffmpegProxy = [c \in Ids |-> "none"]
    /\ proxyPromise = [c \in Ids |-> NoPromise]
    /\ ffmpegThumb = [c \in Ids |-> "none"]
    /\ thumbPromise = [c \in Ids |-> NoPromise]
    /\ spawned = [c \in Ids |-> [probe |-> 0, proxy |-> 0, thumb |-> 0]]
    /\ consoleErrors = [c \in Ids |-> 0]
    /\ marks = <<>>
    /\ nextMarkId = 1
    /\ httpRes = NoHttpRes
    /\ clientVideos = <<>>
    /\ exportSummary = NULL
    /\ exportVideos = NULL
    /\ exports = <<>>
    /\ nextExportId = 1
    /\ originalname = NULL
    /\ source = NULL
    /\ filenameDate = NULL
    /\ project = NULL
    /\ sortMode = "smart"
    /\ activeVideoId = NULL
    /\ currentInPoint = NULL
    /\ refreshInterval = NULL
    /\ timers = {}
    /\ opens = 0
    /\ fetches = <<>>
    /\ stagedOn = NULL
    /\ stageNo = 0
    /\ created = <<>>
    /\ exportPoll = NULL
    /\ memoryLogs = <<>>
    /\ cacheStore = <<>>
    /\ plays = <<>>
    /\ playerSrc = NULL


-----------------------------------------------------------------------------
(* Continuations of the two pipeline functions between their awaits.        *)

\* StartPipeline with generateProxy not awaited: the thumbnail ffmpeg is
\* spawned in the same turn.
StartPipelineNoAwait(c) ==
    /\ pc' = [pc EXCEPT ![c] = "thumb"]
    /\ ffmpegProxy' = [ffmpegProxy EXCEPT ![c] = "running"]
    /\ proxyPromise' = [proxyPromise EXCEPT ![c] = Pending]
    /\ ffmpegThumb' = [ffmpegThumb EXCEPT ![c] = "running"]
    /\ thumbPromise' = [thumbPromise EXCEPT ![c] = Pending]
    /\ spawned' = [spawned EXCEPT ![c].proxy = Inc(@), ![c].thumb = Inc(@)]
    /\ UNCHANGED consoleErrors

\* StartPipeline with the pipeline function called twice for the clip.
StartPipelineTwice(c) ==
    /\ pc' = [pc EXCEPT ![c] = "proxy"]
    /\ ffmpegProxy' = [ffmpegProxy EXCEPT ![c] = "running"]
    /\ proxyPromise' = [proxyPromise EXCEPT ![c] = Pending]
    /\ spawned' = [spawned EXCEPT ![c].proxy = Inc(Inc(@))]
    /\ UNCHANGED <<ffmpegThumb, thumbPromise, consoleErrors>>

\* server.js:496-506 / 533-543: entry of the pipeline function up to
\* `await generateProxy(...)`: the proxy ffmpeg is spawned.
StartPipeline(c) ==
    /\ pc' = [pc EXCEPT ![c] = "proxy"]
    /\ ffmpegProxy' = [ffmpegProxy EXCEPT ![c] = "running"]
    /\ proxyPromise' = [proxyPromise EXCEPT ![c] = Pending]
    /\ spawned' = [spawned EXCEPT ![c].proxy = Inc(@)]
    /\ UNCHANGED <<ffmpegThumb, thumbPromise, consoleErrors>>

\* server.js:508-509 / 545-546: generateProxy resolved; the thumbnail ffmpeg is
\* spawned and awaited.
AfterProxyResolved(c) ==
    /\ pc' = [pc EXCEPT ![c] = "thumb"]
    /\ ffmpegThumb' = [ffmpegThumb EXCEPT ![c] = "running"]
    /\ thumbPromise' = [thumbPromise EXCEPT ![c] = Pending]
    /\ spawned' = [spawned EXCEPT ![c].thumb = Inc(@)]
    /\ UNCHANGED <<videos, consoleErrors>>

\* server.js:511-520 (the store write, then return) / 548-557 (the UPDATE is
\* issued and awaited).
AfterThumbResolved(c) ==
    /\ IF IS_LOCAL_MODE
       THEN /\ videos' = LocalWriteReady(videos, c)
            /\ pc' = [pc EXCEPT ![c] = "done"]
       ELSE /\ videos' = videos
            /\ pc' = [pc EXCEPT ![c] = "updReady"]
    /\ UNCHANGED <<consoleErrors, spawned>>

\* server.js:521-528 / 561-569: the catch block: console.error, then the
\* failed write (local) or the failed UPDATE issued and awaited (cloud).
PipelineCatch(c) ==
    /\ consoleErrors' = [consoleErrors EXCEPT ![c] = @ + 1]
    /\ IF IS_LOCAL_MODE
       THEN /\ videos' = LocalWriteFailed(videos, c)
            /\ pc' = [pc EXCEPT ![c] = "done"]
       ELSE /\ videos' = videos
            /\ pc' = [pc EXCEPT ![c] = "updFailed"]
    /\ UNCHANGED spawned

-----------------------------------------------------------------------------
(* POST /api/projects/:projectId/videos                                     *)

\* server.js:430-432: no file in the request.
UploadNoFile(r) ==
    /\ r = nextId
    /\ reqPc[r] = "idle"
    /\ nextId' = r + 1
    /\ reqPc' = [reqPc EXCEPT ![r] = "done"]
    /\ res' = [res EXCEPT ![r] = [code |-> 400, error |-> "no file", video |-> NULL]]
    /\ UNCHANGED <<IS_LOCAL_MODE, videos, ffprobe, probePromise, spawned>>
    /\ UNCHANGED pipeVars

\* server.js:434-439 with 156-160: the handler up to `await getVideoMetadata`.
UploadStart(r) ==
    /\ r = nextId
    /\ reqPc[r] = "idle"
    /\ nextId' = r + 1
    /\ reqPc' = [reqPc EXCEPT ![r] = "probe"]
    /\ ffprobe' = [ffprobe EXCEPT ![r] = "running"]
    /\ probePromise' = [probePromise EXCEPT ![r] = Pending]
    /\ spawned' = [spawned EXCEPT ![r].probe = Inc(@)]
    /\ UNCHANGED <<IS_LOCAL_MODE, videos, res>>
    /\ UNCHANGED pipeVars

\* server.js:441-492: the handler after the probe settled with `metadata`.
UploadContinue(r, metadata) ==
    IF MetadataDateThrows(metadata)
    THEN \* line 452 throws, caught at 489
         /\ reqPc' = [reqPc EXCEPT ![r] = "done"]
         /\ res' = [res EXCEPT ![r] = [code |-> 500, error |-> "Invalid time value",
                                       video |-> NULL]]
         /\ UNCHANGED <<videos, spawned>>
         /\ UNCHANGED pipeVars
    ELSE IF IS_LOCAL_MODE
    THEN \* 462-464, 488
         /\ videos' = Insert(videos, r, NewVideo(r, metadata))
         /\ StartPipeline(r)
         /\ reqPc' = [reqPc EXCEPT ![r] = "done"]
         \* res.json serialises the very object that sits in localStore.videos
         /\ res' = [res EXCEPT ![r] = [code |-> 200, error |-> "",
                                       video |-> Some(videos'[r])]]
    ELSE \* 469: the INSERT is issued and awaited
         /\ reqPc' = [reqPc EXCEPT ![r] = "insert"]
         /\ UNCHANGED <<videos, res, spawned>>
         /\ UNCHANGED pipeVars

\* ffprobe could not be launched: Node emits 'error' (server.js:164) and then
\* 'close' with a negative code (165-168). The close handler only calls resolve
\* once more, so the two handlers are taken as one step.
ProbeError(r) ==
    /\ ffprobe[r] = "running"
    /\ ffprobe' = [ffprobe EXCEPT ![r] = "closed"]
    /\ probePromise' = [probePromise EXCEPT ![r] = Resolve(Resolve(@, NULL), NULL)]
    /\ IF probePromise[r].state = "pending"
       THEN UploadContinue(r, NULL)
       ELSE UNCHANGED <<videos, reqPc, res, spawned>> /\ UNCHANGED pipeVars
    /\ UNCHANGED <<IS_LOCAL_MODE, nextId>>

\* ProbeCloseValue without the exit code test of server.js:166-169.
ProbeCloseValueAnyCode(code, stdout) == ParseMetadata(stdout)

\* What the close handler (server.js:165-183) resolves with.
ProbeCloseValue(code, stdout) == IF code # 0 THEN NULL ELSE ParseMetadata(stdout)

\* server.js:165-183: ffprobe exited with `code` having printed `stdout`.
ProbeClose(r, code, stdout) ==
    /\ ffprobe[r] = "running"
    /\ ffprobe' = [ffprobe EXCEPT ![r] = "closed"]
    /\ probePromise' = [probePromise EXCEPT ![r] = Resolve(@, ProbeCloseValue(code, stdout))]
    /\ IF probePromise[r].state = "pending"
       THEN UploadContinue(r, ProbeCloseValue(code, stdout))
       ELSE UNCHANGED <<videos, reqPc, res, spawned>> /\ UNCHANGED pipeVars
    /\ UNCHANGED <<IS_LOCAL_MODE, nextId>>

\* server.js:469-488: the INSERT resolved: the pipeline is started and the
\* response sent.
InsertResolved(r) ==
    /\ reqPc[r] = "insert"
    /\ videos' = Insert(videos, r, NewVideo(r, probePromise[r].value))
    /\ StartPipeline(r)
    /\ reqPc' = [reqPc EXCEPT ![r] = "done"]
    \* res.json serialises the handler's own `video` object, which nothing else holds
    /\ res' = [res EXCEPT ![r] = [code |-> 200, error |-> "",
                                  video |-> Some(NewVideo(r, probePromise[r].value))]]
    /\ UNCHANGED <<IS_LOCAL_MODE, nextId, ffprobe, probePromise>>

\* server.js:489-492: the INSERT rejected.
InsertRejected(r) ==
    /\ reqPc[r] = "insert"
    /\ reqPc' = [reqPc EXCEPT ![r] = "done"]
    /\ res' = [res EXCEPT ![r] = [code |-> 500, error |-> "db", video |-> NULL]]
    /\ UNCHANGED <<IS_LOCAL_MODE, videos, nextId, ffprobe, probePromise, spawned>>
    /\ UNCHANGED pipeVars

-----------------------------------------------------------------------------
(* generateProxy and generateThumbnail: the ffmpeg children's events, each  *)
(* with the pipeline continuation it resumes.                               *)

ExitCodes == {0, 1}

\* ffmpeg could not be launched: Node emits 'error' (server.js:230-233) and then
\* 'close' with a negative code (235-240). The close handler only calls reject
\* once more (and logs), so the two handlers are taken as one step.
ProxyError(c) ==
    /\ ffmpegProxy[c] = "running"
    /\ ffmpegProxy' = [ffmpegProxy EXCEPT ![c] = "closed"]
    /\ proxyPromise' = [proxyPromise EXCEPT ![c] =
                           Reject(Reject(@, "FFmpeg not found"), "Proxy generation failed")]
    /\ IF proxyPromise[c].state = "pending"
       THEN PipelineCatch(c)
       ELSE UNCHANGED <<videos, pc, consoleErrors, spawned>>
    /\ UNCHANGED <<ffmpegThumb, thumbPromise>>
    /\ UNCHANGED IS_LOCAL_MODE
    /\ UNCHANGED uploadVars

\* server.js:235-245: the proxy ffmpeg exited with `code`.
ProxyClose(c, code) ==
    /\ ffmpegProxy[c] = "running"
    /\ ffmpegProxy' = [ffmpegProxy EXCEPT ![c] = "closed"]
    /\ proxyPromise' = [proxyPromise EXCEPT ![c] =
                           IF code # 0 THEN Reject(@, "Proxy generation failed")
                           ELSE Resolve(@, ProxyUrl(c))]
    /\ IF proxyPromise[c].state # "pending"
       THEN UNCHANGED <<videos, pc, consoleErrors, spawned, ffmpegThumb, thumbPromise>>
       ELSE IF code # 0
       THEN PipelineCatch(c) /\ UNCHANGED <<ffmpegThumb, thumbPromise>>
       ELSE AfterProxyResolved(c)
    /\ UNCHANGED IS_LOCAL_MODE
    /\ UNCHANGED uploadVars

\* ffmpeg could not be launched: 'error' (server.js:260), then 'close' with a
\* negative code (261-262), as one step.
ThumbError(c) ==
    /\ ffmpegThumb[c] = "running"
    /\ ffmpegThumb' = [ffmpegThumb EXCEPT ![c] = "closed"]
    /\ thumbPromise' = [thumbPromise EXCEPT ![c] =
                           Reject(Reject(@, "FFmpeg not found"), "Thumbnail generation failed")]
    /\ IF thumbPromise[c].state = "pending"
       THEN PipelineCatch(c)
       ELSE UNCHANGED <<videos, pc, consoleErrors, spawned>>
    /\ UNCHANGED <<ffmpegProxy, proxyPromise>>
    /\ UNCHANGED IS_LOCAL_MODE
    /\ UNCHANGED uploadVars

\* server.js:261-264: the thumbnail ffmpeg exited with `code`.
ThumbClose(c, code) ==
    /\ ffmpegThumb[c] = "running"
    /\ ffmpegThumb' = [ffmpegThumb EXCEPT ![c] = "closed"]
    /\ thumbPromise' = [thumbPromise EXCEPT ![c] =
                           IF code # 0 THEN Reject(@, "Thumbnail generation failed")
                           ELSE Resolve(@, ThumbnailUrl(c))]
    /\ IF thumbPromise[c].state # "pending"
       THEN UNCHANGED <<videos, pc, consoleErrors, spawned>>
       ELSE IF code # 0
       THEN PipelineCatch(c)
       ELSE AfterThumbResolved(c)
    /\ UNCHANGED <<ffmpegProxy, proxyPromise>>
    /\ UNCHANGED IS_LOCAL_MODE
    /\ UNCHANGED uploadVars

-----------------------------------------------------------------------------
(* processVideoForCloud: the two UPDATEs settling.                          *)

\* server.js:552-559: the ready UPDATE resolved; the function returns.
UpdateReadyResolved(c) ==
    /\ pc[c] = "updReady"
    /\ videos' = CloudUpdateReady(videos, c)
    /\ pc' = [pc EXCEPT ![c] = "done"]
    /\ UNCHANGED <<IS_LOCAL_MODE, spawned, consoleErrors,
                   ffmpegProxy, proxyPromise, ffmpegThumb, thumbPromise>>
    /\ UNCHANGED uploadVars

\* server.js:561-569: the ready UPDATE rejected; the catch block runs.
UpdateReadyRejected(c) ==
    /\ pc[c] = "updReady"
    /\ PipelineCatch(c)
    /\ UNCHANGED <<IS_LOCAL_MODE, ffmpegProxy, proxyPromise, ffmpegThumb, thumbPromise>>
    /\ UNCHANGED uploadVars

\* server.js:566-573: the failed UPDATE resolved; the function returns.
UpdateFailedResolved(c) ==
    /\ pc[c] = "updFailed"
    /\ videos' = CloudUpdateFailed(videos, c)
    /\ pc' = [pc EXCEPT ![c] = "done"]
    /\ UNCHANGED <<IS_LOCAL_MODE, spawned, consoleErrors,
                   ffmpegProxy, proxyPromise, ffmpegThumb, thumbPromise>>
    /\ UNCHANGED uploadVars

\* server.js:570-572: the failed UPDATE rejected too: console.error only.
UpdateFailedRejected(c) ==
    /\ pc[c] = "updFailed"
    /\ consoleErrors' = [consoleErrors EXCEPT ![c] = @ + 1]
    /\ pc' = [pc EXCEPT ![c] = "done"]
    /\ UNCHANGED <<IS_LOCAL_MODE, videos, spawned,
                   ffmpegProxy, proxyPromise, ffmpegThumb, thumbPromise>>
    /\ UNCHANGED uploadVars

-----------------------------------------------------------------------------
(* DELETE /api/videos/:id. A client can name only an id the server has     *)
(* told it: the id of an upload that was answered with its clip.            *)

Known(id) == res[id].code = 200

\* The marks table's foreign key, video_id REFERENCES videos(id) ON DELETE
\* CASCADE (server.js:806-812): deleting a videos row deletes its marks.
CascadeMarks(table, id) == SelectSeq(table, LAMBDA m : m.video_id # id)

\* server.js:579-587, 602: local mode, one turn. localStore.marks is not touched.
DeleteLocal(id) ==
    /\ IS_LOCAL_MODE
    /\ Known(id)
    /\ videos' = Remove(videos, id)
    /\ httpRes' = 200
    /\ UNCHANGED <<IS_LOCAL_MODE, spawned>>
    /\ UNCHANGED uploadVars
    /\ UNCHANGED pipeVars
    /\ UNCHANGED <<markVars, planVars>>

\* server.js:591-602: cloud mode. The handler awaits a SELECT (whose row only
\* names the original file to unlink) and then the DELETE; the turn in which
\* the DELETE resolves is the one that changes the tables.
DeleteCloud(id) ==
    /\ ~IS_LOCAL_MODE
    /\ Known(id)
    /\ videos' = Remove(videos, id)
    /\ marks' = CascadeMarks(marks, id)
    /\ httpRes' = 200
    /\ UNCHANGED <<IS_LOCAL_MODE, spawned, nextMarkId>>
    /\ UNCHANGED uploadVars
    /\ UNCHANGED pipeVars
    /\ UNCHANGED planVars

\* server.js:603-604: the SELECT or the DELETE rejected; nothing was applied.
DeleteCloudRejected(id) ==
    /\ ~IS_LOCAL_MODE
    /\ Known(id)
    /\ httpRes' = 500
    /\ UNCHANGED <<IS_LOCAL_MODE, videos, spawned>>
    /\ UNCHANGED uploadVars
    /\ UNCHANGED pipeVars
    /\ UNCHANGED <<markVars, planVars>>

-----------------------------------------------------------------------------
Upload(r) ==
    /\ \/ UploadNoFile(r)
       \/ UploadStart(r)
       \/ ProbeError(r)
       \/ \E code \in ExitCodes, stdout \in ProbeOutputs : ProbeClose(r, code, stdout)
       \/ InsertResolved(r)
       \/ InsertRejected(r)
    /\ UNCHANGED <<markVars, httpRes, planVars, nameVars, clientVars, sideVars>>

\* The steps of clip c's pipeline after its start.
Pipeline(c) ==
    /\ \/ ProxyError(c)
       \/ \E code \in ExitCodes : ProxyClose(c, code)
       \/ ThumbError(c)
       \/ \E code \in ExitCodes : ThumbClose(c, code)
       \/ UpdateReadyResolved(c)
       \/ UpdateReadyRejected(c)
       \/ UpdateFailedResolved(c)
       \/ UpdateFailedRejected(c)
    /\ UNCHANGED <<markVars, httpRes, planVars, nameVars, clientVars, sideVars>>

Delete(id) ==
    /\ \/ DeleteLocal(id)
       \/ DeleteCloud(id)
       \/ DeleteCloudRejected(id)
    /\ UNCHANGED <<nameVars, clientVars, sideVars>>

Next == \E id \in Ids : Upload(id) \/ Pipeline(id) \/ Delete(id)

Spec == Init /\ [][Next]_vars

-----------------------------------------------------------------------------
(* POST /api/videos/:videoId/marks and DELETE /api/marks/:id. Neither       *)
(* handler looks at in_point, out_point or the clip before it writes.       *)

\* The {in_point, out_point} bodies the requests carry (server.js:615): the
\* range 5-10 and the reversed range 10-5.
MarkInputs == { <<5, 10>>, <<10, 5>> }

\* server.js:617-623 (created_at left out)
NewMark(id, videoId, in_point, out_point) ==
    [id |-> id, video_id |-> videoId, in_point |-> in_point, out_point |-> out_point]

\* PushMark putting the mark at the front of the array.
UnshiftMark(list, mark) == <<mark>> \o list

\* server.js:631: video.marks.push(mark)
PushMark(list, mark) == Append(list, mark)

\* WithoutMark written with splice(findIndex(...), 1): findIndex gives -1 for
\* an absent id and splice(-1, 1) then removes the last element.
WithoutMarkSplice(list, markId) ==
    IF \E i \in 1..Len(list) : list[i].id = markId
    THEN SelectSeq(list, LAMBDA m : m.id # markId)
    ELSE SubSeq(list, 1, Len(list) - 1)

\* server.js:651, 655, 659: the list without the mark of that id.
WithoutMark(list, markId) == SelectSeq(list, LAMBDA m : m.id # markId)

\* server.js:625-632, 641: local mode. The mark goes into localStore.marks and,
\* if the clip is stored, onto the end of its marks array.
AddMarkLocal(v, in_point, out_point) ==
    /\ IS_LOCAL_MODE
    /\ Known(v)
    /\ nextMarkId <= MaxMarks
    /\ LET mark == NewMark(nextMarkId, v, in_point, out_point) IN
          /\ marks' = Append(marks, mark)
          /\ videos' = IF v \in DOMAIN videos
                       THEN [videos EXCEPT ![v].marks = PushMark(@, mark)]
                       ELSE videos
    /\ nextMarkId' = nextMarkId + 1
    /\ httpRes' = 200
    /\ UNCHANGED <<IS_LOCAL_MODE, spawned>>
    /\ UNCHANGED uploadVars
    /\ UNCHANGED pipeVars
    /\ UNCHANGED planVars

\* server.js:633-641: cloud mode, the INSERT applied. The foreign key
\* lets it apply only while the videos row exists.
AddMarkCloud(v, in_point, out_point) ==
    /\ ~IS_LOCAL_MODE
    /\ Known(v)
    /\ nextMarkId <= MaxMarks
    /\ v \in DOMAIN videos
    /\ marks' = Append(marks, NewMark(nextMarkId, v, in_point, out_point))
    /\ nextMarkId' = nextMarkId + 1
    /\ httpRes' = 200
    /\ UNCHANGED <<IS_LOCAL_MODE, videos, spawned>>
    /\ UNCHANGED uploadVars
    /\ UNCHANGED pipeVars
    /\ UNCHANGED planVars

\* server.js:642-644: the INSERT rejected (the videos row is gone, or the
\* database failed).
AddMarkCloudRejected(v) ==
    /\ ~IS_LOCAL_MODE
    /\ Known(v)
    /\ httpRes' = 500
    /\ UNCHANGED <<IS_LOCAL_MODE, videos, spawned>>
    /\ UNCHANGED uploadVars
    /\ UNCHANGED pipeVars
    /\ UNCHANGED <<markVars, planVars>>

\* server.js:650-657, 662: local mode. The id goes from localStore.marks and
\* from every clip's marks array.
DeleteMarkLocal(m) ==
    /\ IS_LOCAL_MODE
    /\ marks' = WithoutMark(marks, m)
    /\ videos' = [v \in DOMAIN videos |->
                     [videos[v] EXCEPT !.marks = WithoutMark(@, m)]]
    /\ httpRes' = 200
    /\ UNCHANGED <<IS_LOCAL_MODE, spawned, nextMarkId>>
    /\ UNCHANGED uploadVars
    /\ UNCHANGED pipeVars
    /\ UNCHANGED planVars

\* server.js:658-662: cloud mode, the DELETE applied.
DeleteMarkCloud(m) ==
    /\ ~IS_LOCAL_MODE
    /\ marks' = WithoutMark(marks, m)
    /\ httpRes' = 200
    /\ UNCHANGED <<IS_LOCAL_MODE, videos, spawned, nextMarkId>>
    /\ UNCHANGED uploadVars
    /\ UNCHANGED pipeVars
    /\ UNCHANGED planVars

\* server.js:663-665: the DELETE rejected.
DeleteMarkCloudRejected(m) ==
    /\ ~IS_LOCAL_MODE
    /\ httpRes' = 500
    /\ UNCHANGED <<IS_LOCAL_MODE, videos, spawned>>
    /\ UNCHANGED uploadVars
    /\ UNCHANGED pipeVars
    /\ UNCHANGED <<markVars, planVars>>

\* RebuiltMarks without the reset of server.js:377: the marks of the store
\* are pushed onto the array the clip already has.
RebuiltMarksKept(list, table, id) ==
    list \o SelectSeq(table, LAMBDA m : m.video_id = id)

\* server.js:377-382: the clip's marks array is emptied and the marks of
\* localStore.marks that name the clip are pushed, in the Map's (insertion)
\* order.
RebuiltMarks(list, table, id) ==
    SelectSeq(table, LAMBDA m : m.video_id = id)

\* server.js:366-387, 410-415: GET /api/projects/:id in local mode, for the
\* project every clip of the model belongs to.
ListProjectLocal ==
    /\ IS_LOCAL_MODE
    /\ videos' = [v \in DOMAIN videos |->
                     [videos[v] EXCEPT !.marks = RebuiltMarks(@, marks, v)]]
    /\ httpRes' = 200
    /\ UNCHANGED <<IS_LOCAL_MODE, spawned>>
    /\ UNCHANGED uploadVars
    /\ UNCHANGED pipeVars
    /\ UNCHANGED <<markVars, planVars>>

AddMark(v, in_point, out_point) ==
    \/ AddMarkLocal(v, in_point, out_point)
    \/ AddMarkCloud(v, in_point, out_point)

DeleteMark(m) ==
    \/ DeleteMarkLocal(m)
    \/ DeleteMarkCloud(m)

\* A mark request names a clip id the client was told; a delete names the id
\* of a mark that was created (present or removed since) or, with 0, an id
\* that no mark ever had.
MarkNext ==
    /\ \/ \E v \in Ids, io \in MarkInputs : AddMark(v, io[1], io[2])
       \/ \E v \in Ids : AddMarkCloudRejected(v)
       \/ \E m \in 0..(nextMarkId - 1) : DeleteMark(m) \/ DeleteMarkCloudRejected(m)
       \/ ListProjectLocal
    /\ UNCHANGED <<nameVars, clientVars, sideVars>>

\* The clip handlers and pipelines together with the mark handlers.
MarkSpec == Init /\ [][Next \/ MarkNext]_vars

-----------------------------------------------------------------------------
(* The export summary of the client (app.js, showExportModal) and the clip  *)
(* selection of the local export job (server.js, processExportLocally).     *)
(* Both are functions of a clip collection; PlanSpec draws the collection   *)
(* from PlanSnapshots and applies them to it.                               *)

\* Exportable without the included flag.
ExportableIgnoringIncluded(v) == v.processing_status = "ready"

\* app.js:781: the clips the export summary counts.
Exportable(v) == v.processing_status = "ready" /\ v.included

\* app.js:787: the forEach over a clip's marks.
RECURSIVE MarksDuration(_)
MarksDuration(ms) ==
    IF ms = <<>> THEN 0
    ELSE (Head(ms).out_point - Head(ms).in_point) + MarksDuration(Tail(ms))

\* ClipDuration adding the clip's duration whether or not it has marks.
ClipDurationAlways(v) == MarksDuration(v.marks) + v.duration

\* app.js:786-790: what one clip adds to totalDuration (a duration of 0 is
\* falsy and adds nothing).
ClipDuration(v) ==
    IF Len(v.marks) > 0 THEN MarksDuration(v.marks)
    ELSE IF v.duration # 0 THEN v.duration ELSE 0

\* app.js:784-791: the forEach over readyVideos.
RECURSIVE TotalDuration(_)
TotalDuration(vs) ==
    IF vs = <<>> THEN 0 ELSE ClipDuration(Head(vs)) + TotalDuration(Tail(vs))

\* app.js:782: the reduce over readyVideos.
RECURSIVE TotalMarks(_)
TotalMarks(vs) ==
    IF vs = <<>> THEN 0 ELSE TotalMarks(SubSeq(vs, 1, Len(vs) - 1)) + Len(vs[Len(vs)].marks)

\* JavaScript's %: the remainder has the sign of the dividend.
JsRem(a, b) == IF a >= 0 THEN a % b ELSE -((-a) % b)

\* app.js:950-956: hours, minutes and seconds, each padded to two digits.
FormatTime(seconds) ==
    IF seconds = 0 THEN [pad |-> 2, parts |-> <<0, 0, 0>>]
    ELSE [pad |-> 2,
          parts |-> <<seconds \div 3600, JsRem(seconds, 3600) \div 60, JsRem(seconds, 60)>>]

\* app.js:958-966: minutes (not padded) and seconds below an hour.
FormatDuration(seconds) ==
    IF seconds = 0 THEN [pad |-> 2, parts |-> <<0, 0>>]
    ELSE IF seconds < 3600
         THEN [pad |-> 1, parts |-> <<seconds \div 60, JsRem(seconds, 60)>>]
         ELSE FormatTime(seconds)

\* app.js:781-802: the numbers and texts showExportModal puts into the modal.
ExportSummaryOf(vs) ==
    LET readyVideos == SelectSeq(vs, Exportable)
        totalMarks == TotalMarks(readyVideos)
        totalDuration == TotalDuration(readyVideos)
    IN  [ videoCount |-> Len(readyVideos),
          totalMarks |-> totalMarks,
          totalDuration |-> totalDuration,
          durationText |-> FormatDuration(totalDuration),
          onlyMarkedParts |-> totalMarks > 0 ]

\* ShowExportModal keeping the filtered list as the clip snapshot.
ShowExportModalKeepingReady ==
    /\ exportSummary' = Some(ExportSummaryOf(clientVideos))
    /\ clientVideos' = SelectSeq(clientVideos, Exportable)
    /\ UNCHANGED <<IS_LOCAL_MODE, videos, spawned, httpRes, exportVideos, exports,
                   nextExportId>>
    /\ UNCHANGED uploadVars
    /\ UNCHANGED pipeVars
    /\ UNCHANGED markVars

\* app.js:780-806
ShowExportModal ==
    /\ exportSummary' = Some(ExportSummaryOf(clientVideos))
    /\ UNCHANGED <<IS_LOCAL_MODE, videos, spawned, httpRes, clientVideos, exportVideos,
                   exports, nextExportId>>
    /\ UNCHANGED uploadVars
    /\ UNCHANGED pipeVars
    /\ UNCHANGED markVars

\* server.js:746: Array.prototype.sort is stable; an insertion sort by order_index.
RECURSIVE SortByOrderIndex(_)
SortByOrderIndex(vs) ==
    IF vs = <<>> THEN <<>>
    ELSE LET sorted == SortByOrderIndex(SubSeq(vs, 1, Len(vs) - 1))
             last == vs[Len(vs)]
             before == SelectSeq(sorted, LAMBDA v : v.order_index <= last.order_index)
             after == SelectSeq(sorted, LAMBDA v : v.order_index > last.order_index)
         IN  before \o <<last>> \o after

\* server.js:741: the clips an export job takes (there is one project).
JobSelects(v) == v.included /\ v.processing_status = "ready"

\* The largest clip id a store can hold.
MaxStoreId == IF MaxUploads > MaxPlanClips THEN MaxUploads ELSE MaxPlanClips

\* localStore.videos in iteration order: a Map iterates in insertion order,
\* and ids are given in upload order.
RECURSIVE StoreValues(_, _)
StoreValues(store, n) ==
    IF n = 0 THEN <<>>
    ELSE StoreValues(store, n - 1) \o (IF n \in DOMAIN store THEN <<store[n]>> ELSE <<>>)

\* server.js:673-690, 699 with 731-759: POST /api/projects/:projectId/export in
\* local mode. processExportLocally has no await: the job is created, selects
\* its clips and is marked ready within the request's turn.
StartExportLocal ==
    /\ IS_LOCAL_MODE
    /\ nextExportId <= MaxExports
    /\ exportVideos' = Some(SortByOrderIndex(SelectSeq(StoreValues(videos, MaxStoreId),
                                                      JobSelects)))
    /\ exports' = (nextExportId :> [id |-> nextExportId, status |-> "ready",
                                    progress |-> 100]) @@ exports
    /\ nextExportId' = nextExportId + 1
    /\ UNCHANGED <<IS_LOCAL_MODE, videos, spawned, httpRes, clientVideos, exportSummary>>
    /\ UNCHANGED uploadVars
    /\ UNCHANGED pipeVars
    /\ UNCHANGED markVars

\* The mark lists of the snapshots' clips: none, 0-5, and 0-5 with 10-12.
PlanMarkLists(id) ==
    { <<>>,
      <<NewMark(2 * id - 1, id, 0, 5)>>,
      <<NewMark(2 * id - 1, id, 0, 5), NewMark(2 * id, id, 10, 12)>> }

\* The clip records of the snapshots: any status, included or not, duration 0
\* (no probe) or 30, any of the mark lists; a ready clip has its locations.
PlanClips(id) ==
    { [NewVideo(id, NULL) EXCEPT
          !.processing_status = st, !.included = inc, !.duration = d, !.marks = ms,
          !.proxy_url = IF st = "ready" THEN ProxyUrl(id) ELSE NULL,
          !.thumbnail_url = IF st = "ready" THEN ThumbnailUrl(id) ELSE NULL] :
      st \in {"processing", "ready", "failed"}, inc \in BOOLEAN, d \in {0, 30},
      ms \in PlanMarkLists(id) }

\* The clip collections: clips 1..n for n up to MaxPlanClips.
PlanSnapshots ==
    UNION { { vs \in [1..n -> UNION {PlanClips(id) : id \in 1..n}] :
                \A i \in 1..n : vs[i].id = i } : n \in 0..MaxPlanClips }

\* The marks of a clip collection, clip after clip.
RECURSIVE AllMarks(_)
AllMarks(vs) == IF vs = <<>> THEN <<>> ELSE Head(vs).marks \o AllMarks(Tail(vs))

\* The client has loaded the collection the local store holds.
\* A project of one of the snapshots, loaded by the client, before any
\* export.
PlanStart ==
    /\ clientVideos \in PlanSnapshots
    /\ videos = [i \in 1..Len(clientVideos) |-> clientVideos[i]]
    /\ nextId = 1
    /\ reqPc = [r \in Ids |-> "idle"]
    /\ res = [r \in Ids |-> NoRes]
    /\ ffprobe = [r \in Ids |-> "none"]
    /\ probePromise = [r \in Ids |-> NoPromise]
    /\ pc = [c \in Ids |-> "none"]
    /\ ffmpegProxy = [c \in Ids |-> "none"]
    /\ proxyPromise = [c \in Ids |-> NoPromise]
    /\ ffmpegThumb = [c \in Ids |-> "none"]
    /\ thumbPromise = [c \in Ids |-> NoPromise]
    /\ spawned = [c \in Ids |-> [probe |-> 0, proxy |-> 0, thumb |-> 0]]
    /\ consoleErrors = [c \in Ids |-> 0]
    /\ marks = AllMarks(clientVideos)
    /\ nextMarkId = 2 * MaxPlanClips + 1
    /\ httpRes = NoHttpRes
    /\ exportSummary = NULL
    /\ exportVideos = NULL
    /\ exports = <<>>
    /\ nextExportId = 1
    /\ originalname = NULL
    /\ source = NULL
    /\ filenameDate = NULL
    /\ project = NULL
    /\ sortMode = "smart"
    /\ activeVideoId = NULL
    /\ currentInPoint = NULL
    /\ refreshInterval = NULL
    /\ timers = {}
    /\ opens = 0
    /\ fetches = <<>>
    /\ stagedOn = NULL
    /\ stageNo = 0
    /\ created = <<>>
    /\ exportPoll = NULL
    /\ memoryLogs = <<>>
    /\ cacheStore = <<>>
    /\ plays = <<>>
    /\ playerSrc = NULL

PlanInit ==
    /\ IS_LOCAL_MODE = TRUE
    /\ PlanStart

PlanNext ==
    /\ ShowExportModal \/ StartExportLocal
    /\ UNCHANGED <<nameVars, clientVars, sideVars>>

PlanSpec == PlanInit /\ [][PlanNext]_vars

-----------------------------------------------------------------------------
(* The export job and the client's polling of it.                           *)

\* server.js:691-699: POST /api/projects/:projectId/export in cloud mode, the
\* INSERT applied. The row is written as queued; no statement of the server
\* updates the exports table.
StartExportCloud ==
    /\ ~IS_LOCAL_MODE
    /\ nextExportId <= MaxExports
    /\ exports' = (nextExportId :> [id |-> nextExportId, status |-> "queued",
                                    progress |-> 0]) @@ exports
    /\ nextExportId' = nextExportId + 1
    /\ httpRes' = 200
    /\ UNCHANGED <<IS_LOCAL_MODE, videos, spawned, clientVideos, exportSummary,
                   exportVideos, exportPoll>>
    /\ UNCHANGED <<uploadVars, pipeVars, markVars, nameVars, clientVars>>
    /\ UNCHANGED <<memoryLogs, cacheStore, plays, playerSrc>>

\* server.js:700-702: the INSERT rejected.
StartExportCloudRejected ==
    /\ ~IS_LOCAL_MODE
    /\ nextExportId <= MaxExports
    /\ httpRes' = 500
    /\ UNCHANGED <<IS_LOCAL_MODE, videos, spawned, planVars, exportPoll>>
    /\ UNCHANGED <<uploadVars, pipeVars, markVars, nameVars, clientVars>>
    /\ UNCHANGED <<memoryLogs, cacheStore, plays, playerSrc>>

\* app.js:825-826, 835-841: the answer to startExport names the job;
\* showExportProgress starts the polling.
ShowExportProgress(exportId) ==
    /\ exportId \in DOMAIN exports
    /\ exportPoll = NULL
    /\ exportPoll' = Some([exportId |-> exportId, polls |-> 0, scheduled |-> TRUE,
                           delay |-> 0])
    /\ UNCHANGED <<IS_LOCAL_MODE, videos, spawned, httpRes, planVars>>
    /\ UNCHANGED <<uploadVars, pipeVars, markVars, nameVars, clientVars>>
    /\ UNCHANGED <<memoryLogs, cacheStore, plays, playerSrc>>

\* The polls made, counted up to MaxPolls.
Polled(n) == IF n < MaxPolls THEN n + 1 ELSE n

\* app.js:843-867 with server.js:706-724: a poll answered with the job. The
\* polling ends on ready and on failed and is scheduled again, 2000 ms
\* later, otherwise.
PollExportStatus ==
    /\ exportPoll # NULL
    /\ exportPoll[1].scheduled
    /\ exportPoll' =
          Some([exportPoll[1] EXCEPT
                  !.polls = Polled(@),
                  !.scheduled = exports[exportPoll[1].exportId].status
                                    \notin {"ready", "failed"},
                  !.delay = 2000])
    /\ UNCHANGED <<IS_LOCAL_MODE, videos, spawned, httpRes, planVars>>
    /\ UNCHANGED <<uploadVars, pipeVars, markVars, nameVars, clientVars>>
    /\ UNCHANGED <<memoryLogs, cacheStore, plays, playerSrc>>

\* app.js:868-871: a poll whose fetch throws is scheduled again, 5000 ms later;
\* app.js:848, 867 with server.js:725-727: after an answer without success
\* nothing is scheduled.
PollExportFailed(thrown) ==
    /\ exportPoll # NULL
    /\ exportPoll[1].scheduled
    /\ exportPoll' = Some([exportPoll[1] EXCEPT !.polls = Polled(@),
                                                 !.scheduled = thrown,
                                                 !.delay = 5000])
    /\ UNCHANGED <<IS_LOCAL_MODE, videos, spawned, httpRes, planVars>>
    /\ UNCHANGED <<uploadVars, pipeVars, markVars, nameVars, clientVars>>
    /\ UNCHANGED <<memoryLogs, cacheStore, plays, playerSrc>>

ExportNext ==
    \/ StartExportLocal /\ UNCHANGED <<nameVars, clientVars, sideVars>>
    \/ StartExportCloud
    \/ StartExportCloudRejected
    \/ \E exportId \in 1..MaxExports : ShowExportProgress(exportId)
    \/ PollExportStatus
    \/ \E thrown \in BOOLEAN : PollExportFailed(thrown)

ExportInit ==
    /\ IS_LOCAL_MODE \in BOOLEAN
    /\ PlanStart

\* The export of a loaded project in either storage mode. A scheduled poll
\* is made and, the server being up, answered; requests are started as the
\* user chooses.
ExportSpec == ExportInit /\ [][ExportNext]_vars /\ WF_vars(PollExportStatus)

-----------------------------------------------------------------------------
(* The two filename functions of the upload handler (server.js:124-153).    *)
(* A filename is a string; SubSeq(name, k, k) is its k-th character. A      *)
(* regular expression of the code is a template: one character class per   *)
(* position, a class being the string of the characters it accepts.        *)

\* \d
Digit == "0123456789"

Char(name, k) == SubSeq(name, k, k)

InClass(ch, class) == \E i \in 1..Len(class) : Char(class, i) = ch

\* n copies of a class
Times(class, n) == [i \in 1..n |-> class]

\* The template matches the name's characters k, k+1, ...
MatchesAt(name, template, k) ==
    /\ k + Len(template) - 1 <= Len(name)
    /\ \A i \in 1..Len(template) : InClass(Char(name, k + i - 1), template[i])

\* String.prototype.match without the g flag: the leftmost match, or NULL.
Match(name, template) ==
    LET ks == {k \in 1..Len(name) : MatchesAt(name, template, k)}
    IN  IF ks = {} THEN NULL
        ELSE Some(CHOOSE k \in ks : \A j \in ks : k <= j)

\* parseInt of a string of digits
RECURSIVE ParseInt(_)
ParseInt(str) ==
    IF str = "" THEN 0
    ELSE LET last == Char(str, Len(str))
             d == CHOOSE i \in 0..9 : Char(Digit, i + 1) = last
         IN  10 * ParseInt(SubSeq(str, 1, Len(str) - 1)) + d

\* String.prototype.toUpperCase
RECURSIVE ToUpperCase(_)
ToUpperCase(str) ==
    IF str = "" THEN ""
    ELSE LET lower == "abcdefghijklmnopqrstuvwxyz"
             upper == "ABCDEFGHIJKLMNOPQRSTUVWXYZ"
             ch == Char(str, 1)
             up == IF InClass(ch, lower)
                   THEN LET i == CHOOSE j \in 1..Len(lower) : Char(lower, j) = ch
                        IN  Char(upper, i)
                   ELSE ch
         IN  up \o ToUpperCase(SubSeq(str, 2, Len(str)))

\* The days of a month (1..12) of the Gregorian calendar.
DaysInMonth(y, month) ==
    IF month = 2
    THEN (IF (y % 4 = 0 /\ y % 100 # 0) \/ y % 400 = 0 THEN 29 ELSE 28)
    ELSE IF month \in {4, 6, 9, 11} THEN 30 ELSE 31

\* MakeDay of the Date constructor: a day number outside the month moves into
\* the months before or after it.
RECURSIVE MakeDay(_, _, _)
MakeDay(y, month, day) ==
    IF day < 1
    THEN LET pm == IF month = 1 THEN 12 ELSE month - 1
             py == IF month = 1 THEN y - 1 ELSE y
         IN  MakeDay(py, pm, day + DaysInMonth(py, pm))
    ELSE IF day > DaysInMonth(y, month)
    THEN MakeDay(IF month = 12 THEN y + 1 ELSE y, IF month = 12 THEN 1 ELSE month + 1,
                 day - DaysInMonth(y, month))
    ELSE [year |-> y, month |-> month, day |-> day]

\* new Date(year, monthIndex, day, hours, minutes, seconds) in local time, as
\* the calendar fields of the result: a year 0..99 is 1900 + year, and every
\* field outside its range carries into the next larger one. The time value
\* is NaN only for a non-finite or out-of-range (beyond 8.64e15 ms) argument.
NewDateOfFields(year, monthIndex, day, hours, minutes, seconds) ==
    LET yy == IF year \in 0..99 THEN 1900 + year ELSE year
        secs == hours * 3600 + minutes * 60 + seconds
        y == yy + (monthIndex \div 12)
        ymd == MakeDay(y, (monthIndex % 12) + 1, day + (secs \div 86400))
        rest == secs % 86400
    IN  [ nan |-> yy > 275760,
          year |-> ymd.year, month |-> ymd.month, day |-> ymd.day,
          hours |-> rest \div 3600, minutes |-> (rest % 3600) \div 60,
          seconds |-> rest % 60 ]

\* server.js:125-131: each pattern with the offsets of its capture groups
\* from the start of the match; the i flag doubles a letter; [-_] is "-_" and
\* [-_\s] is "-_ ".
patterns ==
    << [ template |-> <<"Vv", "Ii", "Dd", "_">> \o Times(Digit, 8) \o <<"_">>
                      \o Times(Digit, 6),
         groups |-> <<5, 9, 11, 14, 16, 18>> ],
       [ template |-> <<"Dd", "Jj", "Ii", "_">> \o Times(Digit, 14),
         groups |-> <<5, 9, 11, 13, 15, 17>> ],
       [ template |-> Times(Digit, 4) \o <<"-_">> \o Times(Digit, 2) \o <<"-_">>
                      \o Times(Digit, 2) \o <<"-_ ">> \o Times(Digit, 2)
                      \o <<"-_">> \o Times(Digit, 2) \o <<"-_">>
                      \o Times(Digit, 2),
         groups |-> <<1, 6, 9, 12, 15, 18>> ],
       [ template |-> Times(Digit, 8) \o <<"_">> \o Times(Digit, 6),
         groups |-> <<1, 5, 7, 10, 12, 14>> ],
       [ template |-> <<"Vv", "Ii", "Dd", "-">> \o Times(Digit, 8) \o <<"-", "Ww", "Aa">>,
         groups |-> <<5, 9, 11>> ] >>

\* server.js:136: capture group g of a match at k (the first is four
\* characters long, the others two), '00' for a group the pattern has not.
Group(name, pattern, k, g) ==
    IF g > Len(pattern.groups) THEN "00"
    ELSE LET from == k + pattern.groups[g] - 1
         IN  SubSeq(name, from, from + (IF g = 1 THEN 3 ELSE 1))

\* server.js:137-138
DateOfMatch(name, pattern, k) ==
    NewDateOfFields(ParseInt(Group(name, pattern, k, 1)),
                    ParseInt(Group(name, pattern, k, 2)) - 1,
                    ParseInt(Group(name, pattern, k, 3)),
                    ParseInt(Group(name, pattern, k, 4)),
                    ParseInt(Group(name, pattern, k, 5)),
                    ParseInt(Group(name, pattern, k, 6)))

\* server.js:133-142: the loop from pattern i on.
RECURSIVE parseFrom(_, _)
parseFrom(filename, i) ==
    IF i > Len(patterns) THEN NULL
    ELSE LET match == Match(filename, patterns[i].template)
         IN  IF match # NULL /\ ~DateOfMatch(filename, patterns[i], match[1]).nan
             THEN Some(DateOfMatch(filename, patterns[i], match[1]))
             ELSE parseFrom(filename, i + 1)

\* server.js:124-143
parseFilenameDate(filename) == parseFrom(filename, 1)

\* The android pattern without its time part and with either separator.
AndroidPatternLoose == <<"V", "I", "D", "_-">> \o Times(Digit, 8)

\* server.js:147: /^VID_\d{8}_\d{6}/
AndroidPattern == <<"V", "I", "D", "_">> \o Times(Digit, 8) \o <<"_">> \o Times(Digit, 6)

\* server.js:145-153: the patterns start with ^, so the match is at the
\* first character: /^IMG_\d{4}/, /^G[HOX]\d{6}/, /^DJI_/, /^VID-\d{8}-WA/.
detectVideoSource(filename) ==
    LET name == ToUpperCase(filename)
    IN  IF MatchesAt(name, AndroidPattern, 1) THEN "android"
        ELSE IF MatchesAt(name, <<"I", "M", "G", "_">> \o Times(Digit, 4), 1) THEN "iphone"
        ELSE IF MatchesAt(name, <<"G", "HOX">> \o Times(Digit, 6), 1) THEN "gopro"
        ELSE IF MatchesAt(name, <<"D", "J", "I", "_">>, 1) THEN "dji"
        ELSE IF MatchesAt(name, <<"V", "I", "D", "-">> \o Times(Digit, 8)
                                \o <<"-", "W", "A">>, 1) THEN "whatsapp"
        ELSE "other"

\* The names the functions are applied to: a recording time written into a
\* name in one of the forms cameras and apps use, and names without a time.
Pad2(n) == Char(Digit, (n \div 10) + 1) \o Char(Digit, (n % 10) + 1)

\* year, month, day, hour, minute, second as written into the name: real
\* dates, and dates no calendar has (30 February, month 13, day 0, hour 24).
Stamps ==
    { <<2023, 6, 15, 14, 30, 0>>, <<2024, 2, 29, 23, 59, 59>>, <<2023, 12, 31, 0, 0, 0>>,
      <<2023, 2, 30, 12, 0, 0>>, <<2023, 13, 1, 0, 0, 0>>, <<2023, 2, 29, 8, 0, 0>>,
      <<2023, 6, 0, 9, 15, 0>>, <<2023, 7, 15, 24, 0, 0>> }

StampedName(form, t) ==
    LET year == Pad2(t[1] \div 100) \o Pad2(t[1] % 100)
        ymd == year \o Pad2(t[2]) \o Pad2(t[3])
        hms == Pad2(t[4]) \o Pad2(t[5]) \o Pad2(t[6])
    IN  CASE form = "android" -> "VID_" \o ymd \o "_" \o hms \o ".mp4"
          [] form = "androidLower" -> "vid_" \o ymd \o "_" \o hms \o ".mp4"
          [] form = "dji" -> "DJI_" \o ymd \o hms \o ".MP4"
          [] form = "dashed" -> year \o "-" \o Pad2(t[2]) \o "-" \o Pad2(t[3]) \o " "
                                \o Pad2(t[4]) \o "-" \o Pad2(t[5]) \o "-" \o Pad2(t[6])
                                \o ".mov"
          [] form = "plain" -> "clip_" \o ymd \o "_" \o hms \o ".mp4"
          [] form = "whatsapp" -> "VID-" \o ymd \o "-WA0001.mp4"

\* What a name was made from: its form, the time written into it (NULL when
\* there is none) and the text.
NameInputs ==
    { [form |-> form, stamp |-> Some(t), text |-> StampedName(form, t)] :
          form \in {"android", "androidLower", "dji", "dashed", "plain", "whatsapp"},
          t \in Stamps }
    \cup { [form |-> "iphone", stamp |-> NULL, text |-> "IMG_1234.MOV"],
           [form |-> "iphone", stamp |-> NULL, text |-> "img_0042.mov"],
           [form |-> "gopro", stamp |-> NULL, text |-> "GH010042.MP4"],
           [form |-> "gopro", stamp |-> NULL, text |-> "gx010042.mp4"],
           [form |-> "none", stamp |-> NULL, text |-> "holiday.mp4"],
           [form |-> "none", stamp |-> NULL, text |-> "GZ010042.MP4"] }

\* server.js:434-436: the upload handler applies both functions to
\* req.file.originalname.
AnalyseName ==
    /\ originalname # NULL
    /\ source = NULL
    /\ source' = Some(detectVideoSource(originalname[1]))
    /\ filenameDate' = parseFilenameDate(originalname[1])
    /\ UNCHANGED <<IS_LOCAL_MODE, videos, spawned, httpRes, originalname>>
    /\ UNCHANGED <<uploadVars, pipeVars, markVars, planVars, clientVars, sideVars>>

\* No request has arrived, no child runs, the stores are empty.
ServerIdle ==
    /\ videos = <<>>
    /\ nextId = 1
    /\ reqPc = [r \in Ids |-> "idle"]
    /\ res = [r \in Ids |-> NoRes]
    /\ ffprobe = [r \in Ids |-> "none"]
    /\ probePromise = [r \in Ids |-> NoPromise]
    /\ pc = [c \in Ids |-> "none"]
    /\ ffmpegProxy = [c \in Ids |-> "none"]
    /\ proxyPromise = [c \in Ids |-> NoPromise]
    /\ ffmpegThumb = [c \in Ids |-> "none"]
    /\ thumbPromise = [c \in Ids |-> NoPromise]
    /\ spawned = [c \in Ids |-> [probe |-> 0, proxy |-> 0, thumb |-> 0]]
    /\ consoleErrors = [c \in Ids |-> 0]
    /\ marks = <<>>
    /\ nextMarkId = 1
    /\ httpRes = NoHttpRes
    /\ exportVideos = NULL
    /\ exports = <<>>
    /\ nextExportId = 1
    /\ memoryLogs = <<>>

\* app.js:6-21: the state the constructor leaves.
ClientConstructed ==
    /\ clientVideos = <<>>
    /\ exportSummary = NULL
    /\ project = NULL
    /\ sortMode = "smart"
    /\ activeVideoId = NULL
    /\ currentInPoint = NULL
    /\ refreshInterval = NULL
    /\ timers = {}
    /\ opens = 0
    /\ fetches = <<>>
    /\ stagedOn = NULL
    /\ stageNo = 0
    /\ created = <<>>
    /\ exportPoll = NULL
    /\ cacheStore = <<>>
    /\ plays = <<>>
    /\ playerSrc = NULL

\* An upload with one of the names has arrived.
NameInit ==
    /\ IS_LOCAL_MODE \in BOOLEAN
    /\ ServerIdle
    /\ ClientConstructed
    /\ originalname \in {Some(n.text) : n \in NameInputs}
    /\ source = NULL
    /\ filenameDate = NULL

NameSpec == NameInit /\ [][AnalyseName]_vars

-----------------------------------------------------------------------------
(* The client (src/public/js/app.js): opening and leaving a project, the    *)
(* five-second refresh, the sort modes, and staging and confirming marks.   *)
(* One action is one event handler or one continuation after an await; the  *)
(* server is the client's environment: a request in flight is answered at  *)
(* any later time, in any order, with success or with an error.             *)

Projects == {1, 2}

SortModes == {"smart", "upload", "filename", "manual"}

\* videoPlayer.currentTime when a mark button is pressed
PlayerTimes == {5, 10}

\* A row of the videos table as the project route sends it (server.js:417);
\* a date is the ISO string of a time value.
ClientClip(id, project_id, name, metadata_date, filename_date, upload_date, order_index) ==
    [ id |-> id, project_id |-> project_id, original_filename |-> name,
      metadata_date |-> metadata_date, filename_date |-> filename_date,
      upload_date |-> upload_date, order_index |-> order_index,
      processing_status |-> "ready", proxy_url |-> ProxyUrl(id), included |-> TRUE,
      duration |-> 30, marks |-> <<>> ]

\* new Date(isoString)
DateOfIso(iso) == ValidDate(iso[1])

\* dateA - dateB: the difference of the time values, NaN for an invalid Date;
\* sort takes a NaN from its comparator as 0.
DateDiff(a, b) == IF a.nan \/ b.nan THEN 0 ELSE a.ms - b.ms

\* getBestDate with the filename date asked first.
getBestDateFilenameFirst(video) ==
    IF video.filename_date # NULL THEN DateOfIso(video.filename_date)
    ELSE IF video.metadata_date # NULL THEN DateOfIso(video.metadata_date)
    ELSE DateOfIso(video.upload_date)

\* app.js:492-496
getBestDate(video) ==
    IF video.metadata_date # NULL THEN DateOfIso(video.metadata_date)
    ELSE IF video.filename_date # NULL THEN DateOfIso(video.filename_date)
    ELSE DateOfIso(video.upload_date)

\* The order localeCompare gives the names in use: by letter, the lower-case
\* letter before the upper-case one.
Collation == <<"a.mp4", "A.mp4", "b.mp4">>

\* a.localeCompare(b): negative, zero or positive
LocaleCompare(a, b) ==
    (CHOOSE i \in 1..Len(Collation) : Collation[i] = a)
    - (CHOOSE i \in 1..Len(Collation) : Collation[i] = b)

\* Compare answering 1 or -1 only (a >= b ? 1 : -1 on the mode's value).
CompareNoTies(mode, a, b) ==
    LET greaterOrEqual ==
            CASE mode = "smart" -> DateDiff(getBestDate(a), getBestDate(b)) >= 0
              [] mode = "upload" ->
                    DateDiff(DateOfIso(a.upload_date), DateOfIso(b.upload_date)) >= 0
              [] mode = "filename" ->
                    LocaleCompare(a.original_filename, b.original_filename) >= 0
              [] OTHER -> a.order_index >= b.order_index
    IN  IF greaterOrEqual THEN 1 ELSE -1

\* app.js:472-489: the comparator of each mode. order_index is a number in
\* every row (server.js:455, 803), which `|| 0` leaves as it is.
Compare(mode, a, b) ==
    CASE mode = "smart" -> DateDiff(getBestDate(a), getBestDate(b))
      [] mode = "upload" -> DateDiff(DateOfIso(a.upload_date), DateOfIso(b.upload_date))
      [] mode = "filename" -> LocaleCompare(a.original_filename, b.original_filename)
      [] OTHER -> a.order_index - b.order_index

\* Array.prototype.sort: the element moves left past every element the
\* comparator puts after it (an insertion sort; sort is stable).
RECURSIVE InsertSorted(_, _, _)
InsertSorted(sorted, x, mode) ==
    IF sorted = <<>> THEN <<x>>
    ELSE LET last == sorted[Len(sorted)]
         IN  IF Compare(mode, last, x) > 0
             THEN Append(InsertSorted(SubSeq(sorted, 1, Len(sorted) - 1), x, mode), last)
             ELSE Append(sorted, x)

RECURSIVE ArraySort(_, _)
ArraySort(list, mode) ==
    IF list = <<>> THEN <<>>
    ELSE InsertSorted(ArraySort(SubSeq(list, 1, Len(list) - 1), mode), list[Len(list)], mode)

\* sortVideos leaving the list as it is.
sortVideosUnsorted(list, mode) == list

\* app.js:471-490
sortVideos(list, mode) == ArraySort(list, mode)

\* A request in flight.
Fetch(kind, p) ==
    [ kind |-> kind, project |-> p, video |-> 0, in_point |-> 0, out_point |-> 0,
      stagedOn |-> NULL, stage |-> 0 ]

\* app.js:685-692: the mark request, with the clip the in point was staged on
\* and the number of the staging.
MarkFetch(video, in_point, out_point) ==
    [ kind |-> "mark", project |-> 0, video |-> video, in_point |-> in_point,
      out_point |-> out_point, stagedOn |-> stagedOn, stage |-> stageNo ]

\* The requests without the i-th.
Answered(i) == SubSeq(fetches, 1, i - 1) \o SubSeq(fetches, i + 1, Len(fetches))

\* What no client action touches.
ServerUnchanged ==
    /\ UNCHANGED <<IS_LOCAL_MODE, videos, spawned, httpRes, exportSummary, exportVideos,
                   exports, nextExportId>>
    /\ UNCHANGED <<uploadVars, pipeVars, markVars, nameVars, sideVars>>

\* setInterval returns a handle no running timer has.
NewTimer(running) == CHOOSE h \in 1..(Cardinality(running) + 1) : h \notin running

\* app.js:380-385: stopAutoRefresh, on the pair of this.refreshInterval and
\* the timers that run.
StopAutoRefresh(handle, running) ==
    IF handle # NULL
    THEN [refreshInterval |-> NULL, timers |-> running \ {handle[1]}]
    ELSE [refreshInterval |-> handle, timers |-> running]

\* startAutoRefresh that does not stop the timer it replaces.
StartAutoRefreshNoStop(handle, running) ==
    [refreshInterval |-> Some(NewTimer(running)),
     timers |-> running \cup {NewTimer(running)}]

\* app.js:375-378: startAutoRefresh.
StartAutoRefresh(handle, running) ==
    LET stopped == StopAutoRefresh(handle, running)
    IN [refreshInterval |-> Some(NewTimer(stopped.timers)),
        timers |-> stopped.timers \cup {NewTimer(stopped.timers)}]

\* app.js:203-217, 301-303: the page is loaded with a remembered project;
\* the constructor calls loadProject.
LoadProject(p) ==
    /\ ClientConstructed
    /\ fetches' = Append(fetches, Fetch("load", p))
    /\ UNCHANGED <<clientVideos, project, sortMode, activeVideoId, currentInPoint,
                   refreshInterval, timers, opens, stagedOn, stageNo, created>>
    /\ ServerUnchanged

\* app.js:244-256 and 272-288: createProject or joinProject, from the landing
\* screen.
JoinProject(p) ==
    /\ project = NULL
    /\ Len(fetches) < MaxFetches
    /\ fetches' = Append(fetches, Fetch("join", p))
    /\ UNCHANGED <<clientVideos, project, sortMode, activeVideoId, currentInPoint,
                   refreshInterval, timers, opens, stagedOn, stageNo, created>>
    /\ ServerUnchanged

\* app.js:304-308 (loadProject), 258-262 (createProject), 289-292
\* (joinProject) with openProject, 315-342: a successful answer. Only
\* loadProject passes the clips on.
OpenResponse(i, data) ==
    /\ fetches[i].kind \in {"load", "join"}
    /\ fetches' = Answered(i)
    /\ project' = Some(fetches[i].project)
    /\ clientVideos' = sortVideos(IF fetches[i].kind = "load" THEN data ELSE <<>>, sortMode)
    /\ refreshInterval' = StartAutoRefresh(refreshInterval, timers).refreshInterval
    /\ timers' = StartAutoRefresh(refreshInterval, timers).timers
    /\ opens' = opens + 1
    /\ UNCHANGED <<sortMode, activeVideoId, currentInPoint, stagedOn, stageNo, created>>
    /\ ServerUnchanged

\* An answer without success, or a fetch that throws: every handler only
\* reports it (app.js:264-269, 293-298, 309-312, 406-409, 711-713).
FetchFailed(i) ==
    /\ fetches' = Answered(i)
    /\ UNCHANGED <<clientVideos, project, sortMode, activeVideoId, currentInPoint,
                   refreshInterval, timers, opens, stagedOn, stageNo, created>>
    /\ ServerUnchanged

\* app.js:344-359
LeaveProject ==
    /\ project # NULL
    /\ refreshInterval' = StopAutoRefresh(refreshInterval, timers).refreshInterval
    /\ timers' = StopAutoRefresh(refreshInterval, timers).timers
    /\ opens' = 0
    /\ project' = NULL
    /\ clientVideos' = <<>>
    /\ activeVideoId' = NULL
    /\ UNCHANGED <<sortMode, currentInPoint, fetches, stagedOn, stageNo, created>>
    /\ ServerUnchanged

\* app.js:377, 387-391: a running interval timer calls refreshProject, which
\* sends the request for the open project.
RefreshTick ==
    /\ timers # {}
    /\ project # NULL
    /\ Len(fetches) < MaxFetches
    /\ fetches' = Append(fetches, Fetch("refresh", project[1]))
    /\ UNCHANGED <<clientVideos, project, sortMode, activeVideoId, currentInPoint,
                   refreshInterval, timers, opens, stagedOn, stageNo, created>>
    /\ ServerUnchanged

\* app.js:392-405: the successful answer to a refresh; JSON.stringify of two
\* lists is the same text when the lists are equal.
RefreshResponse(i, data) ==
    /\ fetches[i].kind = "refresh"
    /\ fetches' = Answered(i)
    /\ clientVideos' = IF clientVideos # data THEN sortVideos(data, sortMode)
                       ELSE clientVideos
    /\ UNCHANGED <<project, sortMode, activeVideoId, currentInPoint, refreshInterval, timers, opens,
                   stagedOn, stageNo, created>>
    /\ ServerUnchanged

\* app.js:160-165: the sort select of the editor screen.
ChangeSort(mode) ==
    /\ project # NULL
    /\ sortMode' = mode
    /\ clientVideos' = sortVideos(clientVideos, mode)
    /\ UNCHANGED <<project, activeVideoId, currentInPoint, refreshInterval, timers, opens, fetches,
                   stagedOn, stageNo, created>>
    /\ ServerUnchanged

\* app.js:568-577: a click on a clip of the list that is ready.
PlayVideo(videoId) ==
    /\ \E i \in 1..Len(clientVideos) :
          /\ clientVideos[i].id = videoId
          /\ clientVideos[i].processing_status = "ready"
    /\ activeVideoId' = Some(videoId)
    /\ UNCHANGED <<clientVideos, project, sortMode, currentInPoint, refreshInterval, timers, opens,
                   fetches, stagedOn, stageNo, created>>
    /\ ServerUnchanged

\* app.js:655-663
SetInPoint(currentTime) ==
    /\ activeVideoId # NULL
    /\ stageNo < MaxStages
    /\ currentInPoint' = Some(currentTime)
    /\ stagedOn' = activeVideoId
    /\ stageNo' = stageNo + 1
    /\ UNCHANGED <<clientVideos, project, sortMode, activeVideoId, refreshInterval, timers, opens,
                   fetches, created>>
    /\ ServerUnchanged

\* app.js:665-692: setOutPoint up to its await.
SetOutPoint(currentTime) ==
    /\ activeVideoId # NULL
    /\ currentInPoint # NULL
    /\ currentTime > currentInPoint[1]
    /\ Len(fetches) < MaxFetches
    /\ fetches' = Append(fetches, MarkFetch(activeVideoId[1], currentInPoint[1],
                                            currentTime))
    /\ UNCHANGED <<clientVideos, project, sortMode, activeVideoId, currentInPoint,
                   refreshInterval, timers, opens, stagedOn, stageNo, created>>
    /\ ServerUnchanged

\* server.js:613-645 answering the i-th request: the mark it creates.
CreatedMark(i) ==
    NewMark(Len(created) + 1, fetches[i].video, fetches[i].in_point, fetches[i].out_point)

\* app.js:694-709: setOutPoint after a successful answer. The mark goes to
\* the list of the clip that is active now.
MarkResponse(i) ==
    /\ fetches[i].kind = "mark"
    /\ Len(created) < MaxClientMarks
    /\ fetches' = Answered(i)
    /\ created' = Append(created, [mark |-> CreatedMark(i),
                                   stagedOn |-> fetches[i].stagedOn,
                                   stage |-> fetches[i].stage])
    /\ clientVideos' = [k \in 1..Len(clientVideos) |->
                           IF activeVideoId # NULL /\ clientVideos[k].id = activeVideoId[1]
                           THEN [clientVideos[k] EXCEPT !.marks = Append(@, CreatedMark(i))]
                           ELSE clientVideos[k]]
    /\ currentInPoint' = NULL
    /\ UNCHANGED <<project, sortMode, activeVideoId, refreshInterval, timers, opens, stagedOn, stageNo>>
    /\ ServerUnchanged

\* The clips of the two projects: clips 1 and 2 in project 1, clip 3 in
\* project 2.
ProjectClips(p) ==
    IF p = 1
    THEN << ClientClip(1, 1, "a.mp4", Some(10), NULL, Some(50), 0),
            ClientClip(2, 1, "b.mp4", NULL, Some(20), Some(60), 0) >>
    ELSE << ClientClip(3, 2, "A.mp4", NULL, NULL, Some(70), 0) >>

\* server.js:362-417: the project's clips, each with the marks created for it.
Listing(p) ==
    [k \in 1..Len(ProjectClips(p)) |->
        [ProjectClips(p)[k] EXCEPT !.marks =
            LET mine == SelectSeq(created, LAMBDA c : c.mark.video_id = ProjectClips(p)[k].id)
            IN  [j \in 1..Len(mine) |-> mine[j].mark]]]

ClientNext ==
    \/ \E p \in Projects : LoadProject(p) \/ JoinProject(p)
    \/ \E i \in 1..Len(fetches) : OpenResponse(i, Listing(fetches[i].project))
    \/ \E i \in 1..Len(fetches) : RefreshResponse(i, Listing(fetches[i].project))
    \/ \E i \in 1..Len(fetches) : MarkResponse(i)
    \/ \E i \in 1..Len(fetches) : FetchFailed(i)
    \/ LeaveProject
    \/ RefreshTick
    \/ \E videoId \in 1..3 : PlayVideo(videoId)
    \/ \E currentTime \in PlayerTimes : SetInPoint(currentTime) \/ SetOutPoint(currentTime)

\* The client with the projects' listings as the server's answers.
ClientSpec == Init /\ [][ClientNext]_vars

\* The clips the sort is applied to, all of project 1: clips 1 and 3 have the
\* same best date (one from the metadata, one from the upload), clips 2 and 4
\* too; clips 2 and 4 were uploaded at the same time; clips 1 and 4 have the
\* same name; clips 1, 2 and 4 the same order index.
SortClips ==
    { ClientClip(1, 1, "b.mp4", Some(30), Some(10), Some(50), 0),
      ClientClip(2, 1, "A.mp4", NULL, Some(20), Some(40), 0),
      ClientClip(3, 1, "a.mp4", NULL, NULL, Some(30), 1),
      ClientClip(4, 1, "b.mp4", Some(20), Some(99), Some(40), 0) }

\* The listings: up to MaxListed different clips in any order.
SortLists ==
    UNION { { list \in [1..n -> SortClips] :
                \A i, j \in 1..n : i # j => list[i] # list[j] } : n \in 0..MaxListed }

SortNext ==
    \/ LoadProject(1)
    \/ JoinProject(1)
    \/ \E i \in 1..Len(fetches), data \in SortLists : OpenResponse(i, data)
    \/ \E i \in 1..Len(fetches), data \in SortLists : RefreshResponse(i, data)
    \/ \E i \in 1..Len(fetches) : FetchFailed(i)
    \/ LeaveProject
    \/ RefreshTick
    \/ \E mode \in SortModes : ChangeSort(mode)

\* The client of project 1 with any listing as the server's answer.
SortSpec == Init /\ [][SortNext]_vars

-----------------------------------------------------------------------------
(* playVideo (app.js:568-615) with the ProxyCache of the browser. A call    *)
(* of getOrCache is a chain of continuations: the read of the store, the    *)
(* download, the write of the store.                                        *)

\* URL.createObjectURL(blob); a blob is known by the location it was
\* downloaded from.
BlobUrl(blob) == <<"blob:", blob>>

\* ProxyCache 107-114: the record of a download (size and cachedAt left out).
CacheRecord(call) ==
    [ videoId |-> call.video.id, projectId |-> call.projectId,
      filename |-> call.video.original_filename, blob |-> call.video.proxy_url ]

\* The positions of the store's records with that key.
Entries(store, videoId) == { k \in 1..Len(store) : store[k].videoId = videoId }

\* Put adding the record whatever the store holds.
PutAppend(store, record) == Append(store, record)

\* ProxyCache 117-119: store.put(record) on the object store of keyPath
\* videoId (36): the record replaces the one of its key, or is added.
Put(store, record) ==
    IF Entries(store, record.videoId) # {}
    THEN [k \in 1..Len(store) |->
             IF store[k].videoId = record.videoId THEN record ELSE store[k]]
    ELSE Append(store, record)

\* The calls without the i-th: it has returned.
Returned(i) == SubSeq(plays, 1, i - 1) \o SubSeq(plays, i + 1, Len(plays))

\* What no step of a playVideo call and no cache operation touches.
PlayUnchanged ==
    /\ UNCHANGED <<IS_LOCAL_MODE, videos, spawned, httpRes>>
    /\ UNCHANGED <<uploadVars, pipeVars, markVars, planVars, nameVars>>
    /\ UNCHANGED <<project, sortMode, currentInPoint, refreshInterval, timers, opens,
                   fetches, stagedOn, stageNo, created, exportPoll, memoryLogs>>

\* app.js:568-595 with ProxyCache 140-141, 68-72: playVideo up to its await;
\* getOrCache has asked the store for the clip's record.
PlayVideoAwait(videoId) ==
    /\ Len(plays) < MaxPlays
    /\ \E i \in 1..Len(clientVideos) :
          /\ clientVideos[i].id = videoId
          /\ clientVideos[i].processing_status = "ready"
          /\ plays' = Append(plays, [video |-> clientVideos[i], projectId |-> project,
                                     step |-> "get"])
    /\ activeVideoId' = Some(videoId)
    /\ UNCHANGED <<cacheStore, playerSrc>>
    /\ PlayUnchanged

\* playVideo without its catch block: a rejected getOrCache loads nothing.
LoadedAfterErrorNothing(src, video) == src

\* app.js:604-609: the catch block loads the clip's proxy_url.
LoadedAfterError(src, video) == video.proxy_url

\* ProxyCache 74-88, 142-146 and app.js:596-603: the store's answer. With a
\* record getOrCache returns it and playVideo loads its blob; with none
\* cacheFromUrl starts the download (102).
GetDone(i) ==
    /\ plays[i].step = "get"
    /\ IF Entries(cacheStore, plays[i].video.id) # {}
       THEN /\ playerSrc' =
                  BlobUrl(cacheStore[CHOOSE k \in Entries(cacheStore, plays[i].video.id) :
                                        TRUE].blob)
            /\ plays' = Returned(i)
       ELSE /\ plays' = [plays EXCEPT ![i].step = "fetch"]
            /\ UNCHANGED playerSrc
    /\ UNCHANGED <<activeVideoId, cacheStore>>
    /\ PlayUnchanged

\* ProxyCache 102-119: the download answered ok and read; the record is
\* handed to the store.
FetchDone(i) ==
    /\ plays[i].step = "fetch"
    /\ plays' = [plays EXCEPT ![i].step = "put"]
    /\ UNCHANGED <<activeVideoId, cacheStore, playerSrc>>
    /\ PlayUnchanged

\* ProxyCache 119-128 and app.js:596-603: the record is stored; playVideo
\* loads the blob.
PutDone(i) ==
    /\ plays[i].step = "put"
    /\ cacheStore' = Put(cacheStore, CacheRecord(plays[i]))
    /\ playerSrc' = BlobUrl(CacheRecord(plays[i]).blob)
    /\ plays' = Returned(i)
    /\ UNCHANGED activeVideoId
    /\ PlayUnchanged

\* ProxyCache 89 (the read fails), 102-105 and 131-134 (the fetch fails or is
\* answered not ok), 129 (the write fails): getOrCache rejects and playVideo
\* goes to its catch block, app.js:604-609.
GetOrCacheRejected(i) ==
    /\ playerSrc' = LoadedAfterError(playerSrc, plays[i].video)
    /\ plays' = Returned(i)
    /\ UNCHANGED <<activeVideoId, cacheStore>>
    /\ PlayUnchanged

\* ProxyCache 152-162: delete(videoId), from the cache list (app.js:1011).
CacheDelete(videoId) ==
    /\ cacheStore' = SelectSeq(cacheStore, LAMBDA r : r.videoId # videoId)
    /\ UNCHANGED <<activeVideoId, plays, playerSrc>>
    /\ PlayUnchanged

\* ProxyCache 182-192: clearAll (app.js:1029).
CacheClearAll ==
    /\ cacheStore' = <<>>
    /\ UNCHANGED <<activeVideoId, plays, playerSrc>>
    /\ PlayUnchanged

PlayNext ==
    \/ LoadProject(1)
    \/ \E i \in 1..Len(fetches) : OpenResponse(i, Listing(fetches[i].project))
    \/ \E videoId \in 1..3 : PlayVideoAwait(videoId)
    \/ \E i \in 1..Len(plays) : GetDone(i)
    \/ \E i \in 1..Len(plays) : FetchDone(i)
    \/ \E i \in 1..Len(plays) : PutDone(i)
    \/ \E i \in 1..Len(plays) : GetOrCacheRejected(i)
    \/ \E videoId \in 1..3 : CacheDelete(videoId)
    \/ CacheClearAll

\* The client of project 1 playing its clips.
PlaySpec == Init /\ [][PlayNext]_vars

-----------------------------------------------------------------------------
(* The log buffer of the server, server.js:189-205.                         *)

MAX_LOGS == 100

\* server.js:209: the message and type of a call (the type defaults to info).
LogInputs == { <<"FFmpeg Start", "info">> }

\* server.js:195: new Date().toISOString(), the clock read as the number of
\* the call.
Now == IF memoryLogs = <<>> THEN 1 ELSE memoryLogs[1].timestamp + 1

\* Trimmed with >= for >: the buffer is cut when it reaches MAX_LOGS.
TrimmedEarly(buffer) ==
    IF Len(buffer) >= MAX_LOGS THEN SubSeq(buffer, 1, Len(buffer) - 1) ELSE buffer

\* server.js:199: if (memoryLogs.length > MAX_LOGS) memoryLogs.pop()
Trimmed(buffer) ==
    IF Len(buffer) > MAX_LOGS THEN SubSeq(buffer, 1, Len(buffer) - 1) ELSE buffer

\* server.js:193-205: log(message, type)
Log(message, type) ==
    /\ Now <= MaxLogCalls
    /\ LET entry == [timestamp |-> Now, type |-> type, message |-> message]
       IN memoryLogs' = Trimmed(<<entry>> \o memoryLogs)
    /\ UNCHANGED <<IS_LOCAL_MODE, videos, spawned, httpRes>>
    /\ UNCHANGED <<uploadVars, pipeVars, markVars, planVars, nameVars, clientVars>>
    /\ UNCHANGED <<exportPoll, cacheStore, plays, playerSrc>>

LogNext == \E io \in LogInputs : Log(io[1], io[2])

\* The server logging, and nothing else.
LogSpec == Init /\ [][LogNext]_vars

-----------------------------------------------------------------------------
(* Vocabulary of the properties.                                            *)

Stored == DOMAIN videos

Status(c) == videos[c].processing_status

HasProxy(c) == videos[c].proxy_url # NULL

HasThumbnail(c) == videos[c].thumbnail_url # NULL

ProxyFailed(c) == proxyPromise[c].state = "rejected"

ThumbFailed(c) == thumbPromise[c].state = "rejected"

TranscodeFailed(c) == ProxyFailed(c) \/ ThumbFailed(c)

TranscodeSucceeded(c) ==
    proxyPromise[c].state = "fulfilled" /\ thumbPromise[c].state = "fulfilled"

\* The pipeline function of clip c has returned.
PipelineReturned(c) == pc[c] = "done"

ProbeAbsent(r) == probePromise[r] = [state |-> "fulfilled", value |-> NULL]

\* The clip was stored, its id was told to the client, and it is stored no more.
Deleted(c) == Known(c) /\ c \notin Stored

\* The output files of the ffmpeg children spawned for clip c so far
\* (server.js:505, 508 and 542, 545: the proxy child is given proxyPath, the
\* thumbnail child thumbPath).
OutputPaths(c) ==
    (IF spawned[c].proxy > 0 THEN {ProxyPath(c)} ELSE {})
    \cup (IF spawned[c].thumb > 0 THEN {ThumbPath(c)} ELSE {})

-----------------------------------------------------------------------------
\* C1: in every reachable state, in both storage modes, a stored clip is ready
\* exactly when its proxy location is set and exactly when its thumbnail
\* location is set: ready implies both locations, and since no state has the
\* status without both locations or a location without the status, the
\* transition to ready and the two locations are written by one update.
C1_ReadyIffBothArtifacts ==
    \A c \in Stored :
        /\ (Status(c) = "ready") = HasProxy(c)
        /\ (Status(c) = "ready") = HasThumbnail(c)

\* A ready clip carrying both locations, in cloud mode, after its UPDATE.
C1_Witness ==
    \E c \in Stored :
        /\ ~IS_LOCAL_MODE
        /\ Status(c) = "ready" /\ HasProxy(c) /\ HasThumbnail(c)
        /\ PipelineReturned(c)

\* C2 (as claimed): a clip whose makeProxy or makeThumbnail call failed ends,
\* once its pipeline has returned, in status failed with neither location set,
\* and every failed clip has no artifact location.
C2_FailedTranscodeEndsFailed ==
    \A c \in Stored :
        /\ Status(c) = "failed" => ~HasProxy(c) /\ ~HasThumbnail(c)
        /\ (PipelineReturned(c) /\ TranscodeFailed(c)) =>
               Status(c) = "failed" /\ ~HasProxy(c) /\ ~HasThumbnail(c)

\* C3: makeThumbnail is started for a clip only after that clip's makeProxy has
\* resolved, and a clip whose makeProxy rejected never has a thumbnail ffmpeg:
\* its pipeline is past its transcoder steps.
C3_ThumbnailOnlyAfterProxy ==
    \A c \in Ids :
        /\ (spawned[c].thumb > 0 \/ ffmpegThumb[c] # "none" \/ thumbPromise[c].state # "none")
               => proxyPromise[c].state = "fulfilled"
        /\ ProxyFailed(c) =>
               /\ spawned[c].thumb = 0
               /\ ffmpegThumb[c] = "none"
               /\ pc[c] \in {"updFailed", "done"}

\* One clip whose makeProxy failed and whose pipeline returned without a
\* thumbnail, another whose thumbnail was started after its proxy resolved.
C3_Witness ==
    \E c, d \in Ids :
        /\ ProxyFailed(c) /\ PipelineReturned(c) /\ spawned[c].thumb = 0
        /\ proxyPromise[d].state = "fulfilled" /\ ffmpegThumb[d] = "running"

\* C4: ready and failed are terminal: in every step, a stored clip that stays
\* stored changes its status only from processing, and only to ready or
\* failed; and a record that appears in the store appears as processing, for an
\* id that was never stored before.
C4_TerminalStatuses ==
    [][ /\ \A c \in Stored \cap DOMAIN videos' :
              videos'[c].processing_status # Status(c) =>
                  /\ Status(c) = "processing"
                  /\ videos'[c].processing_status \in {"ready", "failed"}
        /\ \A c \in DOMAIN videos' \ Stored :
              /\ videos'[c].processing_status = "processing"
              /\ pc[c] = "none" ]_vars

\* A ready clip and a failed clip, both with their pipelines returned, while
\* the other has since taken steps.
C4_Witness ==
    \E c, d \in Stored :
        /\ Status(c) = "ready" /\ PipelineReturned(c)
        /\ Status(d) = "failed" /\ PipelineReturned(d)

\* C5 (as claimed): of two stored clips whose pipelines have returned, one with
\* a failed transcoder call and one with both transcoder calls succeeded, the
\* first is failed and the second is ready.
C5_TwoClipsOneFailsOneReady ==
    \A c, d \in Stored :
        (/\ c # d
         /\ PipelineReturned(c) /\ TranscodeFailed(c)
         /\ PipelineReturned(d) /\ TranscodeSucceeded(d))
        => (Status(c) = "failed" /\ Status(d) = "ready")

\* C6 (as claimed): every failure inside a clip's pipeline (a transcoder
\* failure or a rejected persistence update, each of which enters the catch
\* block) has become, once the pipeline has returned, the stored clip's status
\* failed plus a log entry.
C6_FailureBecomesFailed ==
    \A c \in Stored :
        (PipelineReturned(c) /\ (TranscodeFailed(c) \/ consoleErrors[c] > 0))
        => (Status(c) = "failed" /\ consoleErrors[c] > 0)

\* C7 (as claimed, in the form a finite run refutes): the pipeline takes no
\* step after it has returned, so a stored clip reaches ready or failed only
\* if it has done so by then.
C7_ReturnedPipelineLeftProcessing ==
    \A c \in Stored : PipelineReturned(c) => Status(c) \in {"ready", "failed"}

\* C8: the step that answers an upload with its clip creates the record with
\* status processing and no artifact locations, starts the pipeline (the proxy
\* ffmpeg is spawned and generateProxy is still pending, no thumbnail yet), and
\* the clip in the response has status processing; no stored clip and no
\* returned clip ever has a status other than processing, ready or failed.
C8_IngestAnswersProcessing ==
    [][ /\ \A r \in Ids :
              (res[r].code # 200 /\ res'[r].code = 200) =>
                  /\ r \notin Stored /\ r \in DOMAIN videos'
                  /\ videos'[r].processing_status = "processing"
                  /\ videos'[r].proxy_url = NULL /\ videos'[r].thumbnail_url = NULL
                  /\ pc[r] = "none" /\ pc'[r] = "proxy"
                  /\ ffmpegProxy'[r] = "running" /\ proxyPromise'[r].state = "pending"
                  /\ ffmpegThumb'[r] = "none"
        /\ \A r \in Ids :
              res'[r].code = 200 =>
                  /\ res'[r].video # NULL
                  /\ res'[r].video[1].processing_status = "processing"
                  /\ res'[r].video[1].proxy_url = NULL
                  /\ res'[r].video[1].thumbnail_url = NULL
        /\ \A c \in DOMAIN videos' :
              videos'[c].processing_status \in {"processing", "ready", "failed"} ]_vars

\* An upload answered with a processing clip while its makeProxy is running.
C8_Witness ==
    \E r \in Ids :
        /\ res[r].code = 200 /\ res[r].video[1].processing_status = "processing"
        /\ r \in Stored /\ Status(r) = "processing"
        /\ pc[r] = "proxy" /\ ffmpegProxy[r] = "running"

\* The ffprobe events after which the probe must be absent: a failed launch, a
\* non-zero exit, or exit 0 with output JSON.parse rejects.
ProbeFails(r) ==
    \/ ProbeError(r)
    \/ \E code \in ExitCodes, stdout \in ProbeOutputs :
          /\ code # 0 \/ ~stdout.json
          /\ ProbeClose(r, code, stdout)

\* C9: a failed launch, a non-zero exit or unparsable output settles the probe
\* promise, which was pending, with absent; a settled probe promise never
\* changes again; an absent probe does not fail the upload (local mode answers
\* with the clip, cloud mode goes on to the INSERT, and the only error an
\* upload with an absent probe can end with is the INSERT's); and a clip stored
\* from an absent probe has duration, width and height 0, no metadata date and
\* was created processing with its pipeline started.
C9_AbsentProbeTolerated ==
    [][ \A r \in Ids :
          /\ ProbeFails(r) =>
                /\ probePromise[r].state = "pending"
                /\ ProbeAbsent(r)'
                /\ IF IS_LOCAL_MODE
                   THEN /\ res'[r].code = 200
                        /\ r \in DOMAIN videos'
                        /\ videos'[r].processing_status = "processing"
                        /\ pc'[r] = "proxy"
                   ELSE reqPc'[r] = "insert"
          /\ probePromise[r].state = "fulfilled" => probePromise'[r] = probePromise[r]
          /\ (ProbeAbsent(r)' /\ reqPc'[r] = "done") =>
                \/ res'[r].code = 200
                \/ ~IS_LOCAL_MODE /\ res'[r].error = "db"
          /\ (ProbeAbsent(r)' /\ r \in DOMAIN videos') =>
                /\ videos'[r].duration = 0
                /\ videos'[r].width = 0
                /\ videos'[r].height = 0
                /\ videos'[r].metadata_date = NULL
                /\ pc'[r] # "none" ]_vars

\* A clip created from an absent probe that has reached ready.
C9_Witness ==
    \E r \in Stored :
        /\ ProbeAbsent(r)
        /\ videos[r].duration = 0 /\ videos[r].metadata_date = NULL
        /\ Status(r) = "ready"

\* C10: for every upload, at most one ffprobe, at most one proxy ffmpeg and at
\* most one thumbnail ffmpeg are ever spawned.
C10_AtMostOneSpawnEach ==
    \A r \in Ids :
        /\ spawned[r].probe <= 1
        /\ spawned[r].proxy <= 1
        /\ spawned[r].thumb <= 1

\* An upload whose pipeline returned after one probe, one proxy and one
\* thumbnail ffmpeg, and another whose pipeline returned after a failed proxy.
C10_Witness ==
    \E r, q \in Ids :
        /\ PipelineReturned(r) /\ spawned[r] = [probe |-> 1, proxy |-> 1, thumb |-> 1]
        /\ PipelineReturned(q) /\ spawned[q] = [probe |-> 1, proxy |-> 1, thumb |-> 0]

\* C11: a delete of a known id is answered in whatever state the clip's
\* pipeline is (not started further, in flight, returned, record already gone);
\* unless the database rejected the statement it is answered 200 and the store
\* then holds no record for the id; and a deleted clip's record never comes
\* back, whichever pipeline step (the ready or the failed write among them)
\* follows the delete.
C11_DeleteWinsOverCompletion ==
    [][ \A id \in Ids :
          /\ (DeleteLocal(id) \/ DeleteCloud(id)) =>
                 /\ httpRes' = 200
                 /\ id \notin DOMAIN videos'
          /\ IS_LOCAL_MODE /\ Known(id) => ENABLED DeleteLocal(id)
          /\ ~IS_LOCAL_MODE /\ Known(id) => ENABLED DeleteCloud(id)
          /\ Deleted(id) => id \notin DOMAIN videos' ]_vars

\* A clip deleted while its pipeline was in flight, whose transcoder calls
\* both succeeded and whose pipeline has made its completion write and returned.
C11_Witness ==
    \E c \in Ids :
        /\ Deleted(c)
        /\ TranscodeSucceeded(c) /\ PipelineReturned(c) /\ consoleErrors[c] = 0
        /\ httpRes = 200

\* The marks of the store, as a set.
StoredMarks == {marks[i] : i \in 1..Len(marks)}

\* The clip's mark list: the marks array of the local record; in cloud mode
\* the clip's rows of the marks table.
MarkList(store, table, c) ==
    IF IS_LOCAL_MODE THEN store[c].marks
    ELSE SelectSeq(table, LAMBDA m : m.video_id = c)

\* C12 (as claimed): no mark of the mark store is owned by a clip that has
\* been deleted, in either storage mode.
C12_NoMarkOfDeletedClip ==
    \A m \in StoredMarks : ~Deleted(m.video_id)

\* C13 (as claimed): a mark request with out_point <= in_point is answered
\* with an error and changes neither the mark store nor any clip.
C13_ReversedRangeRejected ==
    [][ \A v \in Ids, io \in MarkInputs :
          (io[2] <= io[1] /\ AddMark(v, io[1], io[2])) =>
              /\ httpRes' # 200
              /\ marks' = marks
              /\ videos' = videos ]_vars

\* C14 (as claimed): every stored mark has 0 <= in_point < out_point, and
\* out_point within its clip's duration when the clip is stored with a
\* duration above 0.
C14_StoredMarksWellFormed ==
    \A m \in StoredMarks :
        /\ 0 <= m.in_point
        /\ m.in_point < m.out_point
        /\ (m.video_id \in Stored /\ videos[m.video_id].duration > 0)
               => m.out_point <= videos[m.video_id].duration

C16_DeleteMarkIdempotent ==
    [][ \A m \in 0..MaxMarks :
          DeleteMark(m) =>
              /\ httpRes' = 200
              /\ (\A x \in StoredMarks : x.id # m) => (marks' = marks /\ videos' = videos)
              /\ {marks'[i] : i \in 1..Len(marks')} = {x \in StoredMarks : x.id # m}
              /\ Len(marks') = Cardinality({x \in StoredMarks : x.id # m})
              /\ \A i, j \in 1..Len(marks) :
                     (i < j /\ marks[i].id # m /\ marks[j].id # m) =>
                         \E k, l \in 1..Len(marks') :
                             k < l /\ marks'[k] = marks[i] /\ marks'[l] = marks[j]
              /\ DOMAIN videos' = DOMAIN videos
              /\ \A c \in Stored :
                     /\ [videos'[c] EXCEPT !.marks = videos[c].marks] = videos[c]
                     /\ MarkList(videos', marks', c) =
                            SelectSeq(MarkList(videos, marks, c), LAMBDA x : x.id # m) ]_vars

\* A stored clip that keeps the last mark created after the earlier ones were
\* removed.
C16_Witness ==
    \E c \in Stored :
        /\ nextMarkId = MaxMarks + 1
        /\ Len(marks) = 1 /\ marks[1].id = MaxMarks /\ marks[1].video_id = c
        /\ Len(MarkList(videos, marks, c)) = 1
        /\ httpRes = 200

\* The exportable ranges of a clip collection: <<i, k>> is the k-th mark of
\* clip i, <<i, 0>> the whole of clip i; only included ready clips have any.
PlanRanges(vs) ==
    { r \in (1..Len(vs)) \X (0..(2 * MaxPlanClips)) :
        /\ vs[r[1]].included /\ vs[r[1]].processing_status = "ready"
        /\ IF vs[r[1]].marks = <<>> THEN r[2] = 0 ELSE r[2] \in 1..Len(vs[r[1]].marks) }

RangeLength(vs, r) ==
    IF r[2] = 0 THEN vs[r[1]].duration
    ELSE vs[r[1]].marks[r[2]].out_point - vs[r[1]].marks[r[2]].in_point

RECURSIVE SumOfRanges(_, _)
SumOfRanges(vs, rs) ==
    IF rs = {} THEN 0
    ELSE LET r == CHOOSE x \in rs : TRUE
         IN  RangeLength(vs, r) + SumOfRanges(vs, rs \ {r})

C18_RangeCountReported ==
    exportSummary # NULL =>
        \/ exportSummary[1].totalMarks = Cardinality(PlanRanges(clientVideos))
        \/ exportSummary[1].videoCount = Cardinality(PlanRanges(clientVideos))

\* C19: a computed export summary is the summary of the snapshot's included
\* ready clips alone: its clip count is their number, its mark count the number
\* of their marks, and clips that are excluded, processing or failed add
\* nothing whatever marks they carry; the clips an export job selected are
\* exactly the store's included ready clips.
C19_IneligibleContributeNothing ==
    /\ exportSummary # NULL =>
          LET eligible == SelectSeq(clientVideos,
                                    LAMBDA v : v.included /\ v.processing_status = "ready")
          IN  /\ exportSummary[1] = ExportSummaryOf(eligible)
              /\ exportSummary[1].videoCount = Len(eligible)
              /\ exportSummary[1].totalMarks =
                     Cardinality({r \in PlanRanges(clientVideos) : r[2] > 0})
    /\ exportVideos # NULL =>
          {exportVideos[1][i].id : i \in 1..Len(exportVideos[1])} =
              {c \in DOMAIN videos : videos[c].included /\ videos[c].processing_status = "ready"}

\* A failed clip and an excluded ready clip, each carrying two marks: the
\* summary counts nothing and the export job selected no clip.
C19_Witness ==
    /\ exportSummary # NULL /\ exportVideos # NULL
    /\ Len(clientVideos) = 2
    /\ clientVideos[1].processing_status = "failed" /\ Len(clientVideos[1].marks) = 2
    /\ clientVideos[2].processing_status = "ready" /\ ~clientVideos[2].included
    /\ Len(clientVideos[2].marks) = 2
    /\ exportSummary[1].videoCount = 0
    /\ exportSummary[1].totalMarks = 0
    /\ exportSummary[1].totalDuration = 0
    /\ exportVideos[1] = <<>>

\* C20: a step that computes the export summary changes nothing but the
\* summary shown: no clip of the snapshot or of the store, no mark, no export
\* job, no pipeline or child process; and while the snapshot is unchanged a
\* summary once computed stays the same, however often it is computed again.
C20_PlanIsPure ==
    [][ /\ exportSummary' # exportSummary =>
              /\ UNCHANGED <<clientVideos, videos, marks, nextMarkId, exports, nextExportId,
                             exportVideos, spawned, httpRes>>
              /\ UNCHANGED pipeVars
              /\ UNCHANGED uploadVars
        /\ (exportSummary # NULL /\ clientVideos' = clientVideos) =>
              exportSummary' = exportSummary ]_vars

\* A summary computed on a snapshot that holds a clip no export takes, the
\* snapshot still holding it and no export job started.
C20_Witness ==
    /\ exportSummary # NULL
    /\ \E i \in 1..Len(clientVideos) : clientVideos[i].processing_status = "processing"
    /\ exports = <<>> /\ exportVideos = NULL

-----------------------------------------------------------------------------
\* The time a mode orders a clip by, as the number of its ISO string; the
\* smart mode's is the metadata date, else the filename date, else the
\* upload date.
BestTimestamp(v) ==
    IF v.metadata_date # NULL THEN v.metadata_date[1]
    ELSE IF v.filename_date # NULL THEN v.filename_date[1]
    ELSE v.upload_date[1]

\* Clip a's key is not after clip b's in the mode.
NotAfter(mode, a, b) ==
    CASE mode = "smart" -> BestTimestamp(a) <= BestTimestamp(b)
      [] mode = "upload" -> a.upload_date[1] <= b.upload_date[1]
      [] mode = "filename" ->
            \E i, j \in 1..Len(Collation) :
                /\ i <= j
                /\ Collation[i] = a.original_filename
                /\ Collation[j] = b.original_filename
      [] mode = "manual" -> a.order_index <= b.order_index

SameKey(mode, a, b) == NotAfter(mode, a, b) /\ NotAfter(mode, b, a)

Ascending(list, mode) ==
    \A i, j \in 1..Len(list) : i < j => NotAfter(mode, list[i], list[j])

Position(list, v) == CHOOSE i \in 1..Len(list) : list[i] = v

IsPermutation(a, b) ==
    /\ Len(a) = Len(b)
    /\ {a[i] : i \in 1..Len(a)} = {b[i] : i \in 1..Len(b)}
    /\ Cardinality({a[i] : i \in 1..Len(a)}) = Len(a)

\* C21: for every clip of the client's list, getBestDate is the metadata
\* creation time when the clip has one (also when it has a different filename
\* date), otherwise the filename date when it has one, otherwise the upload
\* date; and in smart mode the list is in the order of these times.
C21_BestDatePrecedence ==
    /\ \A i \in 1..Len(clientVideos) :
          getBestDate(clientVideos[i]) = ValidDate(BestTimestamp(clientVideos[i]))
    /\ sortMode = "smart" =>
          \A i, j \in 1..Len(clientVideos) :
              i < j => getBestDate(clientVideos[i]).ms <= getBestDate(clientVideos[j]).ms

\* In smart mode the list holds clip 1 (metadata date 30, filename date 10),
\* clip 2 (filename date 20 only) and clip 3 (upload date 30 only), clip 2
\* first: clip 1 is placed by its metadata date.
C21_Witness ==
    /\ sortMode = "smart"
    /\ Len(clientVideos) = 3
    /\ {clientVideos[i].id : i \in 1..Len(clientVideos)} = {1, 2, 3}
    /\ clientVideos[1].id = 2

\* C22: in each of the four modes, sorting the client's list keeps clips of
\* equal key in the order they had, and sorting the sorted list again gives
\* the same list element for element; the list the client holds is not
\* changed by sorting it again in its mode.
C22_StableAndIdempotent ==
    /\ sortVideos(clientVideos, sortMode) = clientVideos
    /\ \A mode \in SortModes :
          LET sorted == sortVideos(clientVideos, mode)
          IN  /\ sortVideos(sorted, mode) = sorted
              /\ \A i, j \in 1..Len(clientVideos) :
                    i < j /\ SameKey(mode, clientVideos[i], clientVideos[j])
                    => Position(sorted, clientVideos[i]) < Position(sorted, clientVideos[j])

\* In manual mode the list is clips 4, 2, 3: clips 4 and 2 have the same
\* order index and are not in the order of their ids; in smart mode they tie
\* again.
C22_Witness ==
    /\ sortMode = "manual"
    /\ Len(clientVideos) = 3
    /\ <<clientVideos[1].id, clientVideos[2].id, clientVideos[3].id>> = <<4, 2, 3>>

\* C23: after every step the client's list is in ascending order of the
\* selected mode's key; a change of the mode leaves a permutation of the list
\* it had, and an answer to a load or a refresh that changes the list leaves
\* a permutation of the answer's clips.
C23_SortedPermutation ==
    [][/\ Ascending(clientVideos', sortMode')
       /\ \A mode \in SortModes :
             ChangeSort(mode) => IsPermutation(clientVideos', clientVideos)
       /\ \A i \in 1..Len(fetches), data \in SortLists :
             /\ RefreshResponse(i, data) /\ clientVideos' # clientVideos
                   => IsPermutation(clientVideos', data)
             /\ OpenResponse(i, data) /\ fetches[i].kind = "load"
                   => IsPermutation(clientVideos', data)]_vars

\* In upload mode the list is clips 3, 2, 1 (uploaded at 30, 40, 50), which is
\* not the order of the ids nor of any other mode.
C23_Witness ==
    /\ sortMode = "upload"
    /\ Len(clientVideos) = 3
    /\ <<clientVideos[1].id, clientVideos[2].id, clientVideos[3].id>> = <<3, 2, 1>>

-----------------------------------------------------------------------------
Settled(p) == p.state \in {"fulfilled", "rejected"}

\* C26: a call of generateProxy or generateThumbnail settles its promise
\* exactly once: the promise is pending while the child runs, is settled by the
\* step in which the child ends, and never changes afterwards. A child that
\* could not be launched rejects with "FFmpeg not found", also when 'close'
\* follows the 'error' event; a child that exits with a non-zero code rejects
\* with the generation-failed message, which is a different one.
C26_SettlesOnceDistinctErrors ==
    [][\A c \in Ids :
         /\ Settled(proxyPromise[c]) => proxyPromise'[c] = proxyPromise[c]
         /\ Settled(thumbPromise[c]) => thumbPromise'[c] = thumbPromise[c]
         /\ ffmpegProxy[c] = "running" => proxyPromise[c] = Pending
         /\ ffmpegThumb[c] = "running" => thumbPromise[c] = Pending
         /\ ffmpegProxy[c] = "running" /\ ffmpegProxy'[c] = "closed"
               => Settled(proxyPromise'[c])
         /\ ffmpegThumb[c] = "running" /\ ffmpegThumb'[c] = "closed"
               => Settled(thumbPromise'[c])
         /\ ProxyError(c)
               => proxyPromise'[c] = [state |-> "rejected", value |-> "FFmpeg not found"]
         /\ ThumbError(c)
               => thumbPromise'[c] = [state |-> "rejected", value |-> "FFmpeg not found"]
         /\ ProxyClose(c, 1)
               => /\ proxyPromise'[c].state = "rejected"
                  /\ proxyPromise'[c].value # "FFmpeg not found"
         /\ ThumbClose(c, 1)
               => /\ thumbPromise'[c].state = "rejected"
                  /\ thumbPromise'[c].value # "FFmpeg not found"
         /\ ProxyClose(c, 0) => proxyPromise'[c].state = "fulfilled"
         /\ ThumbClose(c, 0) => thumbPromise'[c].state = "fulfilled"]_vars

\* Clip 1's proxy ffmpeg could not be launched, clip 2's thumbnail ffmpeg
\* exited with a non-zero code.
C26_Witness ==
    /\ proxyPromise[1] = [state |-> "rejected", value |-> "FFmpeg not found"]
    /\ thumbPromise[2] = [state |-> "rejected", value |-> "Thumbnail generation failed"]

\* C27: the files the ffmpeg children of a clip write are not the proxy or
\* thumbnail file of any other clip id (so two clips' output files are
\* disjoint), and a clip's proxy file is not its thumbnail file.
C27_OutputPathsPerClip ==
    \A c, d \in Ids :
        /\ c # d => OutputPaths(c) \cap {ProxyPath(d), ThumbPath(d)} = {}
        /\ c # d => OutputPaths(c) \cap OutputPaths(d) = {}
        /\ spawned[c].proxy > 0 /\ spawned[c].thumb > 0
              => Cardinality(OutputPaths(c)) = 2

\* Both clips' proxy and thumbnail children were started.
C27_Witness ==
    \A c \in Ids : spawned[c].proxy > 0 /\ spawned[c].thumb > 0

-----------------------------------------------------------------------------
\* What the analysed name was made from.
NameInput == CHOOSE n \in NameInputs : n.text = originalname[1]

\* The written time is a date and time of the calendar.
CalendarHas(t) ==
    /\ t[2] \in 1..12
    /\ t[3] >= 1
    /\ t[3] <= (CASE t[2] \in {1, 3, 5, 7, 8, 10, 12} -> 31
                  [] t[2] \in {4, 6, 9, 11} -> 30
                  [] OTHER -> IF t[1] % 4 = 0 /\ (t[1] % 100 # 0 \/ t[1] % 400 = 0)
                              THEN 29 ELSE 28)
    /\ t[4] \in 0..23 /\ t[5] \in 0..59 /\ t[6] \in 0..59

\* The Date is exactly the written time (a WhatsApp name carries the day only).
IsExactly(date, form, t) ==
    /\ ~date.nan
    /\ <<date.year, date.month, date.day>> = <<t[1], t[2], t[3]>>
    /\ <<date.hours, date.minutes, date.seconds>> =
          IF form = "whatsapp" THEN <<0, 0, 0>> ELSE <<t[4], t[5], t[6]>>

\* C24: parseFilenameDate fails closed: for a name without a written time, or
\* with a written time that no calendar has (30 February, month 13), the
\* result is absent; for a name with a real date and time the result is
\* exactly that time.
C24_InvalidDateIsAbsent ==
    source # NULL =>
        IF NameInput.stamp # NULL /\ CalendarHas(NameInput.stamp[1])
        THEN /\ filenameDate # NULL
             /\ IsExactly(filenameDate[1], NameInput.form, NameInput.stamp[1])
        ELSE filenameDate = NULL

\* C25: detectVideoSource answers with the convention the name follows,
\* whatever the case of its letters: android for VID_<date>_<time>, iphone
\* for IMG_<4 digits>, gopro for GH/GO/GX<6 digits>, dji for DJI_, whatsapp
\* for VID-<date>-WA (never android), and other for every other name.
C25_SourceByConvention ==
    source # NULL =>
        source[1] = (CASE NameInput.form \in {"android", "androidLower"} -> "android"
                       [] NameInput.form = "iphone" -> "iphone"
                       [] NameInput.form = "gopro" -> "gopro"
                       [] NameInput.form = "dji" -> "dji"
                       [] NameInput.form = "whatsapp" -> "whatsapp"
                       [] OTHER -> "other")

\* A WhatsApp name was classified.
C25_Witness ==
    /\ source = Some("whatsapp")
    /\ originalname = Some("VID-20230615-WA0001.mp4")

-----------------------------------------------------------------------------
\* The mark requests in flight.
MarkFetches == {f \in {fetches[i] : i \in 1..Len(fetches)} : f.kind = "mark"}

\* C28: every mark request the client has sent, and every mark created, comes
\* from an out point confirmed on an active clip after an in point was staged,
\* with the out point after the in point; and no two created marks come from
\* the same staging of an in point.
C28_OneMarkPerStagedInPoint ==
    /\ \A f \in MarkFetches :
          f.stage >= 1 /\ f.stagedOn # NULL /\ f.in_point < f.out_point
    /\ \A k \in 1..Len(created) :
          /\ created[k].stage >= 1
          /\ created[k].mark.in_point < created[k].mark.out_point
    /\ \A k, l \in 1..Len(created) : k # l => created[k].stage # created[l].stage

\* C29: the in point of every mark request and of every created mark was
\* staged on the clip the mark is made for.
C29_InPointOfSameClip ==
    /\ \A f \in MarkFetches : f.stagedOn = Some(f.video)
    /\ \A k \in 1..Len(created) : created[k].stagedOn = Some(created[k].mark.video_id)

\* C30: the client's list holds clips of the open project only, and is empty
\* while no project is open.
C30_ListOfOpenProject ==
    /\ project = NULL => clientVideos = <<>>
    /\ \A k \in 1..Len(clientVideos) :
          project # NULL /\ clientVideos[k].project_id = project[1]


\* C32: for every sequence of opening, leaving and refreshing, at most one
\* auto-refresh timer runs, it is the one this.refreshInterval holds, and
\* with no project open (after leaveProject) none runs; opening a project
\* while a timer runs replaces that timer.
C32_OneRefreshTimer ==
    /\ Cardinality(timers) <= 1
    /\ timers = (IF refreshInterval # NULL THEN {refreshInterval[1]} ELSE {})
    /\ project = NULL => timers = {}

\* openProject has run twice without a leaveProject in between, and one
\* timer runs.
C32_Witness ==
    /\ project # NULL
    /\ opens = 2
    /\ timers # {}

\* C33: in local mode, whatever marks were added and removed, clips deleted
\* and projects listed, the marks array of every stored clip is the marks of
\* the mark store owned by that clip, each once, in creation order.
C33_ClipMarksAreStoreMarks ==
    IS_LOCAL_MODE =>
        \A c \in Stored :
            videos[c].marks = SelectSeq(marks, LAMBDA m : m.video_id = c)

\* The store holds a mark of a stored clip and a mark of a deleted one.
C33_Witness ==
    /\ IS_LOCAL_MODE
    /\ \E c \in Stored : Len(videos[c].marks) = 1
    /\ \E m \in StoredMarks : Deleted(m.video_id)

\* C34 (as claimed): a mark request for a clip id that is not in the store
\* (the clip was deleted) is answered with an error and creates no mark, in
\* either storage mode.
C34_MarkOfAbsentClipRefused ==
    [][ \A v \in Ids, io \in MarkInputs :
          (v \notin Stored /\ AddMark(v, io[1], io[2])) =>
              /\ httpRes' # 200
              /\ marks' = marks ]_vars

\* C36: a call of log leaves a buffer of at most MAX_LOGS (100) entries with
\* the new entry first and the newest entries before the older ones; the
\* entries behind the new one are the buffer as it was, unmodified and in
\* order, without its last (oldest) entry if the buffer was full and whole
\* otherwise.
C36_LogBufferBounded ==
    [][ memoryLogs' # memoryLogs =>
          /\ Len(memoryLogs') <= MAX_LOGS
          /\ \A i, j \in 1..Len(memoryLogs') :
                i < j => memoryLogs'[i].timestamp > memoryLogs'[j].timestamp
          /\ Tail(memoryLogs') =
                (IF Len(memoryLogs) = MAX_LOGS
                 THEN SubSeq(memoryLogs, 1, MAX_LOGS - 1)
                 ELSE memoryLogs) ]_vars

\* The buffer is full and entries have been evicted.
C36_Witness ==
    /\ Len(memoryLogs) = MAX_LOGS
    /\ memoryLogs[MAX_LOGS].timestamp > 1

\* C35 (as claimed): in both storage modes every export job that was started
\* reaches ready or failed, and the polling the client started for it stops.
C35_ExportSettlesPollingStops ==
    /\ \A e \in 1..MaxExports :
          (e \in DOMAIN exports) ~>
              (e \in DOMAIN exports /\ exports[e].status \in {"ready", "failed"})
    /\ (exportPoll # NULL) ~> (exportPoll # NULL /\ ~exportPoll[1].scheduled)

\* What the player shows is the clip: its proxy_url or a blob downloaded
\* from it.
Shows(src, videoId) == src \in {ProxyUrl(videoId), BlobUrl(ProxyUrl(videoId))}

\* C31 (as claimed): once every playVideo call has completed, the player's
\* source is the proxy of the clip activeVideoId names; a call that completes
\* late never leaves the player on its clip while activeVideoId names
\* another.
C31_PlayerShowsActiveClip ==
    (plays = <<>> /\ activeVideoId # NULL /\ playerSrc # NULL)
        => Shows(playerSrc, activeVideoId[1])

\* C37: a getOrCache that finds a record returns it with no download and
\* leaves the store as it is; a download that is stored leaves exactly one
\* record of the clip's key; whatever the interleaving of the calls, no two
\* records of the store have the same key; after delete(videoId) the store
\* has no record of that key, and after clearAll none at all.
C37_OneRecordPerClip ==
    [][ /\ \A i \in 1..Len(plays) :
              (GetDone(i) /\ Entries(cacheStore, plays[i].video.id) # {}) =>
                  /\ cacheStore' = cacheStore
                  /\ plays' = Returned(i)
                  /\ playerSrc' = BlobUrl(plays[i].video.proxy_url)
        /\ \A i \in 1..Len(plays) :
              PutDone(i) =>
                  /\ Cardinality(Entries(cacheStore', plays[i].video.id)) = 1
                  /\ \A k \in Entries(cacheStore', plays[i].video.id) :
                        cacheStore'[k] = CacheRecord(plays[i])
        /\ \A videoId \in 1..3 :
              /\ Cardinality(Entries(cacheStore', videoId)) <= 1
              /\ CacheDelete(videoId) => Entries(cacheStore', videoId) = {}
        /\ CacheClearAll => cacheStore' = <<>> ]_vars

\* The store holds the record of a clip while a second call for the same
\* clip, which found none, is about to store its download.
C37_Witness ==
    \E i \in 1..Len(plays) :
        /\ plays[i].step = "put"
        /\ Cardinality(Entries(cacheStore, plays[i].video.id)) = 1

\* C38: a getOrCache that rejects while it downloads (the fetch fails or is
\* answered not ok) leaves the cache store as it is, and playVideo then
\* loads the clip's own proxy_url, the clip being ready.
C38_FallbackToDirectUrl ==
    [][ \A i \in 1..Len(plays) :
          (plays[i].step = "fetch" /\ GetOrCacheRejected(i)) =>
              /\ cacheStore' = cacheStore
              /\ playerSrc' = ProxyUrl(plays[i].video.id)
              /\ plays[i].video.processing_status = "ready" ]_vars

\* The download failed and the player has the active clip's proxy_url, the
\* store holding nothing of the clip.
C38_Witness ==
    /\ plays = <<>>
    /\ activeVideoId # NULL
    /\ playerSrc = ProxyUrl(activeVideoId[1])
    /\ Entries(cacheStore, activeVideoId[1]) = {}

============================================================================
